---- MODULE Spec2Model ----
(***************************************************************************)
(* Watch-folder groups of the workspace (crates/workspace/src/             *)
(* watch_folder.rs): the per-group store, the start/stop/pause lifecycle,  *)
(* the filesystem batch dispatcher, the dirty-path refresh and the         *)
(* open/close bookkeeping.                                                 *)
(*                                                                         *)
(* A file name is a sequence of one-character strings, a path a sequence   *)
(* of names, so that the path predicates are computed as the code computes *)
(* them.                                                                   *)
(***************************************************************************)
EXTENDS Integers, Sequences, FiniteSets, Bags, TLC

VARIABLES
    watch_groups,           \* Workspace::watch_groups: group id -> GroupWatchState
    watch_request_ids,      \* Workspace::watch_request_ids: group id -> request id
    next_watch_request_id,  \* Workspace::next_watch_request_id
    watch_status,           \* WatchStatus::state
    starts,                 \* start continuations in flight
    live_watchers,          \* watcher / watch_task pairs not yet dropped
    timers,                 \* debounce timers in flight (a bag)
    opens,                  \* open requests in flight (a bag)
    close_requests,         \* item ids with a close request in flight
    items,                  \* documents open in the panes: item id -> path, group
    next_item_id,           \* next fresh EntityId
    git_repo,               \* a repository covers the worktree
    git_status,             \* project paths whose cached status has changes
    scope                   \* what a specification explores; never changes

vars == << watch_groups, watch_request_ids, next_watch_request_id, watch_status,
           starts, live_watchers, timers, opens, close_requests, items,
           next_item_id, git_repo, git_status, scope >>

----------------------------------------------------------------------------
(* Bounds of the model. *)

\* Lifecycle: overlapping starts and restarts of one group, one open at a time
LifecycleStarts == 2
LifecycleOpens == 1
LifecycleItems == 1

\* Tracking: one start, several opens and documents
TrackingStarts == 1
TrackingOpens == 2
TrackingItems == 2

\* two groups side by side: what an operation on one does to the other
GroupsStarts == 2
GroupsOpens == 1
GroupsItems == 1

\* two groups on different roots: what the status shows of them
StatusStarts == 2
StatusOpens == 1
StatusItems == 1

\* Dirty: one group on either root and a store that reports paths of every
\* kind; open requests are issued and fail, no document is opened
DirtyStarts == 1
DirtyOpens == 2

\* Restart: one group stopped and started again while the requests of its
\* previous state are still in flight
RestartStarts == 2
RestartOpens == 2
RestartItems == 1

\* Restore: the starts that restoring the persisted groups may issue
RestoreStarts == 2

----------------------------------------------------------------------------
(* Maps (HashMap) as functions, and small helpers. *)

MapPut(m, k, v) == [x \in (DOMAIN m) \cup {k} |-> IF x = k THEN v ELSE m[x]]

MapRemove(m, k) == [x \in (DOMAIN m) \ {k} |-> m[x]]

EmptyMap == [x \in {} |-> x]

Range(s) == {s[i] : i \in DOMAIN s}

SeqToBag(s) == [x \in Range(s) |-> Cardinality({i \in DOMAIN s : s[i] = x})]

----------------------------------------------------------------------------
(* File names and paths. *)

n_w == << "w" >>
n_sub == << "s", "u", "b" >>
n_a_txt == << "a", ".", "t", "x", "t" >>
n_b_o == << "b", ".", "o" >>
n_git == << ".", "g", "i", "t" >>
n_HEAD == << "H", "E", "A", "D" >>
n_Out == << "O", "u", "t" >>

WorktreeRoot == << n_w >>
WorktreeId == 1

Roots == { << n_w >> }

\* WorkspaceSettings::open_folders_ignore
OpenFoldersIgnore == { << "o", "u", "T" >> }

UpperToLower ==
    [c \in {"A","B","C","D","E","F","G","H","I","J","K","L","M",
            "N","O","P","Q","R","S","T","U","V","W","X","Y","Z"} |->
        CASE c = "A" -> "a" [] c = "B" -> "b" [] c = "C" -> "c" [] c = "D" -> "d"
          [] c = "E" -> "e" [] c = "F" -> "f" [] c = "G" -> "g" [] c = "H" -> "h"
          [] c = "I" -> "i" [] c = "J" -> "j" [] c = "K" -> "k" [] c = "L" -> "l"
          [] c = "M" -> "m" [] c = "N" -> "n" [] c = "O" -> "o" [] c = "P" -> "p"
          [] c = "Q" -> "q" [] c = "R" -> "r" [] c = "S" -> "s" [] c = "T" -> "t"
          [] c = "U" -> "u" [] c = "V" -> "v" [] c = "W" -> "w" [] c = "X" -> "x"
          [] c = "Y" -> "y" [] c = "Z" -> "z"]

\* to_ascii_lowercase that leaves the name as it is
keep_case(name) == name

to_ascii_lowercase(name) ==
    [i \in DOMAIN name |->
        IF name[i] \in DOMAIN UpperToLower THEN UpperToLower[name[i]] ELSE name[i]]

\* Path::starts_with: a whole-component prefix
StartsWith(path, prefix) ==
    /\ Len(prefix) <= Len(path)
    /\ \A i \in 1..Len(prefix) : path[i] = prefix[i]

\* Path::strip_prefix(..).unwrap_or(path)
StripPrefixOr(path, prefix) ==
    IF StartsWith(path, prefix) THEN SubSeq(path, Len(prefix) + 1, Len(path)) ELSE path

NameStartsWithDot(name) == Len(name) > 0 /\ name[1] = "."

is_hidden_path(root_path, abs_path) ==
    \E i \in DOMAIN StripPrefixOr(abs_path, root_path) :
        NameStartsWithDot(StripPrefixOr(abs_path, root_path)[i])

is_hidden_project_path(project_path) ==
    \E i \in DOMAIN project_path.path : NameStartsWithDot(project_path.path[i])

watch_ignored_names == {to_ascii_lowercase(n) : n \in OpenFoldersIgnore}

is_ignored_path(root_path, abs_path, ignored_names) ==
    \E i \in DOMAIN StripPrefixOr(abs_path, root_path) :
        to_ascii_lowercase(StripPrefixOr(abs_path, root_path)[i]) \in ignored_names

is_ignored_project_path(project_path, ignored_names) ==
    \E i \in DOMAIN project_path.path :
        to_ascii_lowercase(project_path.path[i]) \in ignored_names

BinaryExtensions ==
    { << "o" >>, << "o", "b", "j" >>, << "a" >>, << "s", "o" >>,
      << "d", "y", "l", "i", "b" >>, << "d", "l", "l" >>, << "r", "l", "i", "b" >>,
      << "r", "m", "e", "t", "a" >>, << "a", "i", "r" >>,
      << "m", "e", "t", "a", "l", "l", "i", "b" >>, << "c", "l", "a", "s", "s" >>,
      << "j", "a", "r" >>, << "w", "a", "r" >>, << "e", "x", "e" >>,
      << "p", "d", "b" >>, << "w", "a", "s", "m" >>, << "b", "i", "n" >>,
      << "p", "n", "g" >>, << "j", "p", "g" >>, << "j", "p", "e", "g" >>,
      << "g", "i", "f" >>, << "w", "e", "b", "p" >>, << "i", "c", "o" >>,
      << "p", "d", "f" >>, << "z", "i", "p" >>, << "g", "z" >>, << "x", "z" >>,
      << "b", "z", "2" >>, << "7", "z" >>, << "t", "a", "r" >> }

\* name.rsplit_once('.'): the text after the last '.', when there is one
HasDot(name) == \E i \in DOMAIN name : name[i] = "."

LastDot(name) == CHOOSE i \in DOMAIN name :
    name[i] = "." /\ \A j \in DOMAIN name : name[j] = "." => j <= i

is_binary_artifact_name(name) ==
    /\ HasDot(name)
    /\ SubSeq(name, LastDot(name) + 1, Len(name)) \in BinaryExtensions

is_binary_artifact_abs_path(path) ==
    Len(path) > 0 /\ is_binary_artifact_name(path[Len(path)])

is_binary_artifact_project_path(project_path) ==
    /\ Len(project_path.path) > 0
    /\ is_binary_artifact_name(project_path.path[Len(project_path.path)])

\* project_path_from_abs, an Option: {} for None, {p} for Some(p)
project_path_from_abs(abs_path, root_path, worktree_id) ==
    IF StartsWith(abs_path, root_path)
    THEN {[worktree_id |-> worktree_id,
           path |-> SubSeq(abs_path, Len(root_path) + 1, Len(abs_path))]}
    ELSE {}

Unwrap(option) == CHOOSE x \in option : TRUE

----------------------------------------------------------------------------
(* The version-control store, as the workspace reads it. *)

ProjectPath(path) == [worktree_id |-> WorktreeId, path |-> path]

\* the paths the store can report with changes
GitPaths == { ProjectPath(<< n_a_txt >>) }

GitStatesOf(paths) ==
    {gs \in [repo : BOOLEAN, status : SUBSET paths] : gs.status # {} => gs.repo}

\* the states of the store that a specification explores
GitStates == GitStatesOf(scope.git_paths)

\* git_store.repository_and_path_for_project_path(..).is_some()
should_close_when_clean(w, project_path) ==
    w.git_repo /\ project_path.worktree_id = WorktreeId

is_project_path_dirty(w, project_path) ==
    /\ should_close_when_clean(w, project_path)
    /\ project_path \in w.git_status

\* collect_watch_dirty_paths_for_group without the test of root_rel_path
collect_dirty_paths_of_worktree(w, group_id) ==
    IF group_id \notin DOMAIN w.wg THEN {}
    ELSE {pp \in w.git_status :
            /\ w.git_repo
            /\ pp.worktree_id = w.wg[group_id].worktree_id
            /\ ~ is_hidden_project_path(pp)
            /\ ~ is_ignored_project_path(pp, watch_ignored_names)
            /\ ~ is_binary_artifact_project_path(pp)}

collect_watch_dirty_paths_for_group(w, group_id) ==
    IF group_id \notin DOMAIN w.wg THEN {}
    ELSE {pp \in w.git_status :
            /\ w.git_repo
            /\ pp.worktree_id = w.wg[group_id].worktree_id
            /\ StartsWith(pp.path, w.wg[group_id].root_rel_path)
            /\ ~ is_hidden_project_path(pp)
            /\ ~ is_ignored_project_path(pp, watch_ignored_names)
            /\ ~ is_binary_artifact_project_path(pp)}

----------------------------------------------------------------------------
(* What a specification explores: the groups and roots that are started, the *)
(* paths the store can report, and the bounds on what is in flight.          *)

LifecycleScope ==
    [groups |-> {1}, roots |-> Roots, git_paths |-> GitPaths,
     max_starts |-> LifecycleStarts,
     max_opens |-> LifecycleOpens, max_items |-> LifecycleItems]

TrackingScope ==
    [groups |-> {1}, roots |-> Roots, git_paths |-> GitPaths,
     max_starts |-> TrackingStarts,
     max_opens |-> TrackingOpens, max_items |-> TrackingItems]

GroupsScope ==
    [groups |-> {1, 2}, roots |-> Roots, git_paths |-> GitPaths,
     max_starts |-> GroupsStarts,
     max_opens |-> GroupsOpens, max_items |-> GroupsItems]

\* the worktree root and a directory below it
StatusRoots == { << n_w >>, << n_w, n_sub >> }

\* what the store can report in the Dirty scope: a file at the worktree
\* root, one in a directory, a hidden one, one below an ignored name, a
\* binary artifact, and a file of another worktree
DirtyGitPaths ==
    { ProjectPath(<< n_a_txt >>),
      ProjectPath(<< n_sub, n_a_txt >>),
      ProjectPath(<< n_git, n_HEAD >>),
      ProjectPath(<< n_Out, n_a_txt >>),
      ProjectPath(<< n_sub, n_b_o >>),
      [worktree_id |-> WorktreeId + 1, path |-> << n_a_txt >>] }

DirtyScope ==
    [groups |-> {1}, roots |-> StatusRoots, git_paths |-> DirtyGitPaths,
     max_starts |-> DirtyStarts,
     max_opens |-> DirtyOpens, max_items |-> 0]

StatusScope ==
    [groups |-> {1, 2}, roots |-> StatusRoots, git_paths |-> GitPaths,
     max_starts |-> StatusStarts,
     max_opens |-> StatusOpens, max_items |-> StatusItems]

RestartScope ==
    [groups |-> {1}, roots |-> Roots, git_paths |-> GitPaths,
     max_starts |-> RestartStarts,
     max_opens |-> RestartOpens, max_items |-> RestartItems]

\* two groups restored on either root; the store reports no path
RestoreScope ==
    [groups |-> {1, 2}, roots |-> StatusRoots, git_paths |-> {},
     max_starts |-> RestoreStarts,
     max_opens |-> 0, max_items |-> 0]

----------------------------------------------------------------------------
(* The document container, as the workspace reads it. *)

\* the ids of the open items of a path attributed to a group ({}: None)
item_for_project_path_in_group(w, project_path, group_id) ==
    {i \in DOMAIN w.items :
        w.items[i].project_path = project_path /\ w.items[i].group = group_id}

----------------------------------------------------------------------------
(* The handlers, as functions of the world w: the store (wg), the requests *)
(* in flight (opens, timers, closes) and what they read (items, git).      *)

World ==
    [wg |-> watch_groups, opens |-> opens, timers |-> timers,
     closes |-> close_requests, items |-> items,
     git_repo |-> git_repo, git_status |-> git_status]

\* an open request; issued_by records the request id of the state that issued it
OpenRequest(st, group_id, project_path, close_when_clean, opened_from_fs) ==
    [group_id |-> group_id, project_path |-> project_path,
     close_when_clean |-> close_when_clean, opened_from_fs |-> opened_from_fs,
     issued_by |-> st.request_id]

\* ForgetIn that drops the pending paths whether or not the item is tracked
ForgetInDropsPending(st, item_id) ==
    IF item_id \in DOMAIN st.watched_item_ids
    THEN [st EXCEPT
            !.watched_item_ids = MapRemove(@, item_id),
            !.watched_items = MapRemove(@, st.watched_item_ids[item_id]),
            !.pending_paths = {}]
    ELSE [st EXCEPT !.pending_paths = {}]

ForgetIn(st, item_id) ==
    IF item_id \in DOMAIN st.watched_item_ids
    THEN [st EXCEPT
            !.watched_item_ids = MapRemove(@, item_id),
            !.watched_items = MapRemove(@, st.watched_item_ids[item_id]),
            !.pending_paths = @ \ {st.watched_item_ids[item_id]}]
    ELSE st

promote_watched_item(wg, item_id) ==
    [g \in DOMAIN wg |-> ForgetIn(wg[g], item_id)]

forget_watched_item(wg, item_id) ==
    [g \in DOMAIN wg |-> ForgetIn(wg[g], item_id)]

\* SaveIntent, the save behaviour a close request asks of the pane
SaveIntents ==
    {"Save", "SaveWithoutFormat", "SaveAll", "SaveAs", "Close", "Overwrite", "Skip"}

\* the intents under which the pane may ask the user before it closes: Close
\* asks about unsaved changes, the Save intents about a conflict or a path
PromptingIntents == {"Save", "SaveWithoutFormat", "SaveAll", "SaveAs", "Close"}

\* the intent that skips all save-related behaviour
DiscardSilently == "Skip"

\* the SaveIntent close_watched_item passes to close_item_by_id
close_item_save_intent == "Close"

\* close_watched_item without the call of forget_watched_item
close_without_forget(w, item_id) ==
    IF item_id \notin DOMAIN w.items THEN w
    ELSE [w EXCEPT !.closes = @ \cup {item_id}]

close_watched_item(w, item_id) ==
    IF item_id \notin DOMAIN w.items THEN w
    ELSE [w EXCEPT !.wg = forget_watched_item(w.wg, item_id),
                   !.closes = @ \cup {item_id}]

RECURSIVE CloseItems(_, _)
CloseItems(w, ids) ==
    IF ids = {} THEN w
    ELSE LET i == CHOOSE x \in ids : TRUE
         IN CloseItems(close_watched_item(w, i), ids \ {i})

\* the refresh with close eligibility evaluated before close_when_clean is
\* enabled
refresh_closing_before_enabling(w, group_id) ==
    IF group_id \notin DOMAIN w.wg THEN w
    ELSE IF w.wg[group_id].paused THEN w
    ELSE
      LET st == w.wg[group_id]
          dirty_paths == collect_watch_dirty_paths_for_group(w, group_id)
          new_pending ==
              {d \in dirty_paths :
                  /\ item_for_project_path_in_group(w, d, group_id) = {}
                  /\ d \notin st.pending_paths}
          to_open ==
              {OpenRequest(st, group_id, d, should_close_when_clean(w, d), FALSE) :
                  d \in new_pending}
          enabled ==
              [pp \in DOMAIN st.watched_items |->
                  IF /\ ~ st.watched_items[pp].close_when_clean
                     /\ should_close_when_clean(w, pp)
                  THEN [st.watched_items[pp] EXCEPT
                          !.close_when_clean = TRUE, !.was_dirty = TRUE]
                  ELSE st.watched_items[pp]]
          marked ==
              [pp \in DOMAIN enabled |->
                  IF pp \in dirty_paths
                  THEN [enabled[pp] EXCEPT !.was_dirty = TRUE, !.seen_dirty = TRUE]
                  ELSE enabled[pp]]
          to_close ==
              {marked[pp].item_id : pp \in
                  {q \in DOMAIN marked :
                      /\ q \notin dirty_paths
                      /\ st.watched_items[q].close_when_clean
                      /\ st.watched_items[q].was_dirty}}
          st1 == [st EXCEPT !.pending_paths = @ \cup new_pending,
                            !.watched_items = marked]
      IN CloseItems([w EXCEPT !.wg[group_id] = st1,
                              !.opens = @ (+) SetToBag(to_open)],
                    to_close)

\* the refresh whose enabling step leaves was_dirty as it is
refresh_enabling_without_dirty(w, group_id) ==
    IF group_id \notin DOMAIN w.wg THEN w
    ELSE IF w.wg[group_id].paused THEN w
    ELSE
      LET st == w.wg[group_id]
          dirty_paths == collect_watch_dirty_paths_for_group(w, group_id)
          new_pending ==
              {d \in dirty_paths :
                  /\ item_for_project_path_in_group(w, d, group_id) = {}
                  /\ d \notin st.pending_paths}
          to_open ==
              {OpenRequest(st, group_id, d, should_close_when_clean(w, d), FALSE) :
                  d \in new_pending}
          enabled ==
              [pp \in DOMAIN st.watched_items |->
                  IF /\ ~ st.watched_items[pp].close_when_clean
                     /\ should_close_when_clean(w, pp)
                  THEN [st.watched_items[pp] EXCEPT !.close_when_clean = TRUE]
                  ELSE st.watched_items[pp]]
          marked ==
              [pp \in DOMAIN enabled |->
                  IF pp \in dirty_paths
                  THEN [enabled[pp] EXCEPT !.was_dirty = TRUE, !.seen_dirty = TRUE]
                  ELSE enabled[pp]]
          to_close ==
              {marked[pp].item_id : pp \in
                  {q \in DOMAIN marked :
                      /\ q \notin dirty_paths
                      /\ marked[q].close_when_clean
                      /\ marked[q].was_dirty}}
          st1 == [st EXCEPT !.pending_paths = @ \cup new_pending,
                            !.watched_items = marked]
      IN CloseItems([w EXCEPT !.wg[group_id] = st1,
                              !.opens = @ (+) SetToBag(to_open)],
                    to_close)

refresh_watch_git_status_for_group(w, group_id) ==
    IF group_id \notin DOMAIN w.wg THEN w
    ELSE IF w.wg[group_id].paused THEN w
    ELSE
      LET st == w.wg[group_id]
          dirty_paths == collect_watch_dirty_paths_for_group(w, group_id)
          new_pending ==
              {d \in dirty_paths :
                  /\ item_for_project_path_in_group(w, d, group_id) = {}
                  /\ d \notin st.pending_paths}
          to_open ==
              {OpenRequest(st, group_id, d, should_close_when_clean(w, d), FALSE) :
                  d \in new_pending}
          enabled ==
              [pp \in DOMAIN st.watched_items |->
                  IF /\ ~ st.watched_items[pp].close_when_clean
                     /\ should_close_when_clean(w, pp)
                  THEN [st.watched_items[pp] EXCEPT
                          !.close_when_clean = TRUE, !.was_dirty = TRUE]
                  ELSE st.watched_items[pp]]
          marked ==
              [pp \in DOMAIN enabled |->
                  IF pp \in dirty_paths
                  THEN [enabled[pp] EXCEPT !.was_dirty = TRUE, !.seen_dirty = TRUE]
                  ELSE enabled[pp]]
          to_close ==
              {marked[pp].item_id : pp \in
                  {q \in DOMAIN marked :
                      /\ q \notin dirty_paths
                      /\ marked[q].close_when_clean
                      /\ marked[q].was_dirty}}
          st1 == [st EXCEPT !.pending_paths = @ \cup new_pending,
                            !.watched_items = marked]
      IN CloseItems([w EXCEPT !.wg[group_id] = st1,
                              !.opens = @ (+) SetToBag(to_open)],
                    to_close)

\* schedule_watch_refresh_for_group that starts a timer for a missing group
schedule_without_state(w, group_id) ==
    IF group_id \notin DOMAIN w.wg
    THEN [w EXCEPT !.timers = @ (+) SetToBag({[group_id |-> group_id,
                                               issued_by |-> 0]})]
    ELSE IF w.wg[group_id].refresh_pending THEN w
    ELSE [w EXCEPT
            !.wg[group_id].refresh_pending = TRUE,
            !.timers = @ (+) SetToBag({[group_id |-> group_id,
                                        issued_by |-> w.wg[group_id].request_id]})]

schedule_watch_refresh_for_group(w, group_id) ==
    IF group_id \notin DOMAIN w.wg THEN w
    ELSE IF w.wg[group_id].refresh_pending THEN w
    ELSE [w EXCEPT
            !.wg[group_id].refresh_pending = TRUE,
            !.timers = @ (+) SetToBag({[group_id |-> group_id,
                                        issued_by |-> w.wg[group_id].request_id]})]

\* FsPathWanted without the test of pending_paths
FsPathWantedIgnoresPending(w, group_id, path) ==
    LET st == w.wg[group_id]
        pp == Unwrap(project_path_from_abs(path, st.root_path, st.worktree_id))
    IN /\ StartsWith(path, st.root_path)
       /\ ~ is_ignored_path(st.root_path, path, watch_ignored_names)
       /\ ~ is_binary_artifact_abs_path(path)
       /\ project_path_from_abs(path, st.root_path, st.worktree_id) # {}
       /\ ~ is_hidden_project_path(pp)
       /\ ~ is_ignored_project_path(pp, watch_ignored_names)
       /\ ~ is_binary_artifact_project_path(pp)
       /\ item_for_project_path_in_group(w, pp, group_id) = {}

\* the paths of a batch that handle_watch_fs_paths opens, in order
FsPathWanted(w, group_id, path) ==
    LET st == w.wg[group_id]
        pp == Unwrap(project_path_from_abs(path, st.root_path, st.worktree_id))
    IN /\ StartsWith(path, st.root_path)
       /\ ~ is_ignored_path(st.root_path, path, watch_ignored_names)
       /\ ~ is_binary_artifact_abs_path(path)
       /\ project_path_from_abs(path, st.root_path, st.worktree_id) # {}
       /\ ~ is_hidden_project_path(pp)
       /\ ~ is_ignored_project_path(pp, watch_ignored_names)
       /\ ~ is_binary_artifact_project_path(pp)
       /\ item_for_project_path_in_group(w, pp, group_id) = {}
       /\ pp \notin st.pending_paths

\* handle_watch_fs_paths without the return for a paused group
handle_while_paused(w, group_id, paths) ==
    IF group_id \notin DOMAIN w.wg THEN w
    ELSE
      LET st == w.wg[group_id]
          wanted == SelectSeq(paths, LAMBDA p : FsPathWanted(w, group_id, p))
          to_open ==
              [i \in DOMAIN wanted |->
                  LET pp == Unwrap(project_path_from_abs(wanted[i], st.root_path,
                                                         st.worktree_id))
                  IN OpenRequest(st, group_id, pp,
                                 should_close_when_clean(w, pp), TRUE)]
          new_pending == {to_open[i].project_path : i \in DOMAIN to_open}
          w1 == [w EXCEPT !.wg[group_id].pending_paths = @ \cup new_pending,
                          !.opens = @ (+) SeqToBag(to_open)]
      IN IF paths # << >>
         THEN schedule_watch_refresh_for_group(w1, group_id)
         ELSE w1

handle_watch_fs_paths(w, group_id, paths) ==
    IF group_id \notin DOMAIN w.wg THEN w
    ELSE IF w.wg[group_id].paused THEN w
    ELSE
      LET st == w.wg[group_id]
          wanted == SelectSeq(paths, LAMBDA p : FsPathWanted(w, group_id, p))
          to_open ==
              [i \in DOMAIN wanted |->
                  LET pp == Unwrap(project_path_from_abs(wanted[i], st.root_path,
                                                         st.worktree_id))
                  IN OpenRequest(st, group_id, pp,
                                 should_close_when_clean(w, pp), TRUE)]
          new_pending == {to_open[i].project_path : i \in DOMAIN to_open}
          w1 == [w EXCEPT !.wg[group_id].pending_paths = @ \cup new_pending,
                          !.opens = @ (+) SeqToBag(to_open)]
      IN IF paths # << >>
         THEN schedule_watch_refresh_for_group(w1, group_id)
         ELSE w1

----------------------------------------------------------------------------
(* Filesystem events. *)

EventKinds == {"Created", "Changed", "Removed", "NoKind"}

Event(path, kind, is_file) == [path |-> path, kind |-> kind, is_file |-> is_file]

\* is_file is what fs.is_file answers when the dispatcher asks
Events ==
    {Event(<< n_w, n_a_txt >>, k, TRUE) : k \in EventKinds}
        \cup { Event(<< n_w, n_a_txt >>, "Created", FALSE),
               Event(<< n_w, n_sub >>, "Created", FALSE),
               Event(<< n_w, n_sub, n_b_o >>, "Created", TRUE),
               Event(<< n_w, n_git, n_HEAD >>, "Changed", TRUE),
               Event(<< n_w, n_Out, n_a_txt >>, "Created", TRUE) }

PairEvents ==
    { Event(<< n_w, n_a_txt >>, "Created", TRUE),
      Event(<< n_w, n_sub, n_b_o >>, "Created", TRUE) }

Batches ==
    {<< e >> : e \in Events}
        \cup {<< e1, e2 >> : e1 \in PairEvents, e2 \in PairEvents}
        \cup { << Event(<< n_w, n_a_txt >>, "Created", TRUE),
                  Event(<< n_w, n_a_txt >>, "Changed", TRUE) >> }

\* IsCandidate that does not look at the kind of the event
IsCandidateOfAnyKind(root_path, event) ==
    /\ ~ is_hidden_path(root_path, event.path)
    /\ event.is_file

\* IsCandidate that wants a kind: an event without one is dropped
IsCandidateOfKnownKind(root_path, event) ==
    /\ event.kind \in {"Created", "Changed"}
    /\ ~ is_hidden_path(root_path, event.path)
    /\ event.is_file

\* the candidate paths of a batch (the loop of watch_task)
IsCandidate(root_path, event) ==
    /\ event.kind \in {"Created", "Changed", "NoKind"}
    /\ ~ is_hidden_path(root_path, event.path)
    /\ event.is_file

candidate_paths(root_path, batch) ==
    LET kept == SelectSeq(batch, LAMBDA e : IsCandidate(root_path, e))
    IN [i \in DOMAIN kept |-> kept[i].path]

----------------------------------------------------------------------------
(* Lifecycle helpers. *)

\* set_state that does not count the paused groups
set_state_without_paused(wg) ==
    IF DOMAIN wg = {} THEN {{}}
    ELSE {{[watched_group_count |-> Cardinality(DOMAIN wg),
            paused_group_count |-> 0,
            first_root_path |-> wg[first].root_path]} : first \in DOMAIN wg}

\* WatchStatus::set_state, an Option; states.values().next() is any group
set_state(wg) ==
    IF DOMAIN wg = {} THEN {{}}
    ELSE {{[watched_group_count |-> Cardinality(DOMAIN wg),
            paused_group_count |-> Cardinality({g \in DOMAIN wg : wg[g].paused}),
            first_root_path |-> wg[first].root_path]} : first \in DOMAIN wg}

\* the watcher and watch_task a start builds
WatcherPair(s) ==
    [group_id |-> s.group_id, request_id |-> s.request_id, root_path |-> s.root_path]

\* the GroupWatchState a start installs; request_id records the start that
\* built it, and with it the watcher and watch_task the state owns
GroupWatchState(s) ==
    [root_path |-> s.root_path,
     root_rel_path |-> StripPrefixOr(s.root_path, WorktreeRoot),
     worktree_id |-> WorktreeId,
     paused |-> s.paused,
     refresh_pending |-> FALSE,
     watched_items |-> EmptyMap,
     watched_item_ids |-> EmptyMap,
     pending_paths |-> {},
     request_id |-> s.request_id]

\* dropping the state of a group drops the watcher and the task it owns
DropState(live, wg, group_id) ==
    IF group_id \in DOMAIN wg
    THEN {lw \in live : ~ (lw.group_id = group_id
                           /\ lw.request_id = wg[group_id].request_id)}
    ELSE live

\* DiscardStart that keeps what the start built alive
DiscardStartLeaks(live, s) == live

\* a superseded start returns before it installs: what it built is dropped
DiscardStart(live, s) == live \ {WatcherPair(s)}

\* IsCurrentRequest without the check
IsCurrentRequestUnchecked(request_ids, s) == TRUE

\* IsCurrentRequest that only checks that the group has a request id
IsCurrentRequestAnyId(request_ids, s) == s.group_id \in DOMAIN request_ids

\* the check of a start's continuation before it installs
IsCurrentRequest(request_ids, s) ==
    /\ s.group_id \in DOMAIN request_ids
    /\ request_ids[s.group_id] = s.request_id

SeqsOf(S) == {q \in [1..Cardinality(S) -> S] : Range(q) = S}

RECURSIVE RefreshEach(_, _)
RefreshEach(w, order) ==
    IF order = << >> THEN w
    ELSE RefreshEach(refresh_watch_git_status_for_group(w, Head(order)), Tail(order))

\* the variables a handler writes, within the bounds on requests in flight
Commit(w) ==
    /\ BagCardinality(w.opens) <= scope.max_opens
    /\ watch_groups' = w.wg
    /\ opens' = w.opens
    /\ timers' = w.timers
    /\ close_requests' = w.closes

----------------------------------------------------------------------------
(* The state after construction. *)

InitIn(sc) ==
    /\ scope = sc
    /\ watch_groups = EmptyMap
    /\ watch_request_ids = EmptyMap
    /\ next_watch_request_id = 0
    /\ watch_status = {}
    /\ starts = {}
    /\ live_watchers = {}
    /\ timers = EmptyBag
    /\ opens = EmptyBag
    /\ close_requests = {}
    /\ items = EmptyMap
    /\ next_item_id = 1
    /\ \E gs \in GitStates : git_repo = gs.repo /\ git_status = gs.status

----------------------------------------------------------------------------
(* Lifecycle. *)

\* start_watch_folder_for_group without the call of stop_watching_group
start_without_stop(group_id, root_path, paused) ==
    /\ next_watch_request_id < scope.max_starts
    /\ next_watch_request_id' = next_watch_request_id + 1
    /\ watch_request_ids' =
          MapPut(watch_request_ids, group_id, next_watch_request_id + 1)
    /\ starts' = starts \cup
          {[group_id |-> group_id, request_id |-> next_watch_request_id + 1,
            root_path |-> root_path, paused |-> paused]}
    /\ UNCHANGED << watch_groups, live_watchers, watch_status, timers, opens,
                    close_requests, items, next_item_id, git_repo, git_status,
                    scope >>

start_watch_folder_for_group(group_id, root_path, paused) ==
    /\ next_watch_request_id < scope.max_starts
    /\ watch_groups' = MapRemove(watch_groups, group_id)
    /\ live_watchers' = DropState(live_watchers, watch_groups, group_id)
    /\ watch_status' \in set_state(MapRemove(watch_groups, group_id))
    /\ next_watch_request_id' = next_watch_request_id + 1
    /\ watch_request_ids' =
          MapPut(watch_request_ids, group_id, next_watch_request_id + 1)
    /\ starts' = starts \cup
          {[group_id |-> group_id, request_id |-> next_watch_request_id + 1,
            root_path |-> root_path, paused |-> paused]}
    /\ UNCHANGED << timers, opens, close_requests, items, next_item_id,
                    git_repo, git_status, scope >>

\* a continuation that installs the state although the resolution failed
StartResolveFailsButInstalls(s) ==
    /\ s \in starts
    /\ starts' = starts \ {s}
    /\ watch_groups' = MapPut(watch_groups, s.group_id, GroupWatchState(s))
    /\ UNCHANGED << watch_request_ids, next_watch_request_id,
                    watch_status, live_watchers, timers, opens, close_requests,
                    items, next_item_id, git_repo, git_status, scope >>

\* project_task.await? fails: the continuation ends
StartResolveFails(s) ==
    /\ s \in starts
    /\ starts' = starts \ {s}
    /\ UNCHANGED << watch_groups, watch_request_ids, next_watch_request_id,
                    watch_status, live_watchers, timers, opens, close_requests,
                    items, next_item_id, git_repo, git_status, scope >>

\* project_task.await? and fs.watch(..).await return (nothing of the store
\* changes between the two): the watcher and the task are built, then the
\* state is installed if the request is still the current one
StartInstalls(s) ==
    /\ s \in starts
    /\ starts' = starts \ {s}
    /\ IF IsCurrentRequest(watch_request_ids, s)
       THEN LET wg1 == MapPut(watch_groups, s.group_id, GroupWatchState(s))
                w1 == [World EXCEPT !.wg = wg1]
            IN /\ Commit(IF s.paused THEN w1
                         ELSE refresh_watch_git_status_for_group(w1, s.group_id))
               /\ live_watchers' =
                     DropState(live_watchers, watch_groups, s.group_id)
                        \cup {WatcherPair(s)}
               /\ watch_status' \in set_state(wg1)
       ELSE /\ live_watchers' = DiscardStart(live_watchers \cup {WatcherPair(s)}, s)
            /\ UNCHANGED << watch_groups, watch_status, timers, opens,
                            close_requests >>
    /\ UNCHANGED << watch_request_ids, next_watch_request_id, items,
                    next_item_id, git_repo, git_status, scope >>

\* stop_watching_group that closes the documents the group tracks
stop_closing_documents(group_id) ==
    /\ watch_groups' = MapRemove(watch_groups, group_id)
    /\ watch_request_ids' = MapRemove(watch_request_ids, group_id)
    /\ live_watchers' = DropState(live_watchers, watch_groups, group_id)
    /\ watch_status' \in set_state(MapRemove(watch_groups, group_id))
    /\ close_requests' =
          IF group_id \in DOMAIN watch_groups
          THEN close_requests \cup DOMAIN watch_groups[group_id].watched_item_ids
          ELSE close_requests
    /\ UNCHANGED << next_watch_request_id, starts, timers, opens,
                    items, next_item_id, git_repo, git_status, scope >>

stop_watching_group(group_id) ==
    /\ watch_groups' = MapRemove(watch_groups, group_id)
    /\ watch_request_ids' = MapRemove(watch_request_ids, group_id)
    /\ live_watchers' = DropState(live_watchers, watch_groups, group_id)
    /\ watch_status' \in set_state(MapRemove(watch_groups, group_id))
    /\ UNCHANGED << next_watch_request_id, starts, timers, opens,
                    close_requests, items, next_item_id, git_repo, git_status, scope >>

\* what stop_watching_folder leaves of watch_groups and watch_request_ids
StopAllStore(wg, request_ids) ==
    IF DOMAIN wg = {}
    THEN [wg |-> wg, request_ids |-> request_ids]
    ELSE [wg |-> EmptyMap, request_ids |-> EmptyMap]

stop_watching_folder ==
    IF DOMAIN watch_groups = {}
    THEN UNCHANGED vars
    ELSE /\ watch_groups' = StopAllStore(watch_groups, watch_request_ids).wg
         /\ watch_request_ids' =
               StopAllStore(watch_groups, watch_request_ids).request_ids
         /\ live_watchers' =
               {lw \in live_watchers :
                   \A g \in DOMAIN watch_groups :
                       lw \in DropState(live_watchers, watch_groups, g)}
         /\ watch_status' \in set_state(EmptyMap)
         /\ UNCHANGED << next_watch_request_id, starts, timers, opens,
                         close_requests, items, next_item_id, git_repo,
                         git_status, scope >>

\* set_watch_group_paused without the refresh on unpausing
set_paused_without_refresh(group_id, paused) ==
    IF group_id \notin DOMAIN watch_groups
    THEN UNCHANGED vars
    ELSE LET w1 == [World EXCEPT !.wg[group_id].paused = paused]
         IN /\ Commit(w1)
            /\ watch_status' \in set_state(w1.wg)
            /\ UNCHANGED << watch_request_ids, next_watch_request_id, starts,
                            live_watchers, items, next_item_id, git_repo,
                            git_status, scope >>

set_watch_group_paused(group_id, paused) ==
    IF group_id \notin DOMAIN watch_groups
    THEN UNCHANGED vars
    ELSE LET w1 == [World EXCEPT !.wg[group_id].paused = paused]
             w2 == IF paused THEN w1
                   ELSE refresh_watch_git_status_for_group(w1, group_id)
         IN /\ Commit(w2)
            /\ watch_status' \in set_state(w2.wg)
            /\ UNCHANGED << watch_request_ids, next_watch_request_id, starts,
                            live_watchers, items, next_item_id, git_repo,
                            git_status, scope >>

\* toggle_paused_groups that flips the paused flag of every group
toggle_flipping_each(w, order) ==
    IF DOMAIN w.wg = {} THEN w
    ELSE LET w1 == [w EXCEPT !.wg =
                       [g \in DOMAIN w.wg |->
                           [w.wg[g] EXCEPT !.paused = ~ w.wg[g].paused]]]
         IN RefreshEach(w1, order)

\* what toggle_watch_pause does to the groups and the requests in flight;
\* order is the order of watch_groups.keys()
toggle_paused_groups(w, order) ==
    IF DOMAIN w.wg = {} THEN w
    ELSE LET pause_all == \E g \in DOMAIN w.wg : ~ w.wg[g].paused
             w1 == [w EXCEPT !.wg =
                       [g \in DOMAIN w.wg |->
                           [w.wg[g] EXCEPT !.paused = pause_all]]]
         IN IF pause_all THEN w1 ELSE RefreshEach(w1, order)

toggle_watch_pause(order) ==
    IF DOMAIN watch_groups = {}
    THEN UNCHANGED vars
    ELSE /\ order \in SeqsOf(DOMAIN watch_groups)
         /\ Commit(toggle_paused_groups(World, order))
         /\ watch_status' \in set_state(toggle_paused_groups(World, order).wg)
         /\ UNCHANGED << watch_request_ids, next_watch_request_id, starts,
                         live_watchers, items, next_item_id, git_repo,
                         git_status, scope >>

----------------------------------------------------------------------------
(* Restoring the watch groups of a persisted layout. *)

\* a persisted or live watch configuration of a group
GroupWatchConfig(group_id, root_path, paused) ==
    [group_id |-> group_id, root_path |-> root_path, paused |-> paused]

\* the configurations that are restored: group 1 on either root, paused or
\* not; group 2 on the worktree root unpaused or on the directory paused
GroupWatchConfigs ==
    {GroupWatchConfig(1, r, p) : r \in StatusRoots, p \in BOOLEAN}
        \cup { GroupWatchConfig(2, << n_w >>, FALSE),
               GroupWatchConfig(2, << n_w, n_sub >>, TRUE) }

\* group_watch_configs of one pane
ConfigLists == { << >> } \cup {<< c >> : c \in GroupWatchConfigs}

\* SerializedPaneGroup; tab_ui_state is an Option: {} when the pane has none
\* or its JSON does not parse
SerializedPane(tab_ui_state) ==
    [kind |-> "Pane", tab_ui_state |-> tab_ui_state, children |-> << >>]

SerializedGroup(children) ==
    [kind |-> "Group", tab_ui_state |-> {}, children |-> children]

SerializedPanes ==
    {SerializedPane({})} \cup {SerializedPane({l}) : l \in ConfigLists}

\* the persisted layouts that are restored: a pane, two panes side by side
\* with one configuration each, and a group nested in a group
SerializedPaneGroups ==
    SerializedPanes
        \cup {SerializedGroup(<< SerializedPane({<< c1 >>}),
                                 SerializedPane({<< c2 >>}) >>) :
                 c1 \in GroupWatchConfigs, c2 \in GroupWatchConfigs}
        \cup {SerializedGroup(<< SerializedGroup(<< SerializedPane({<< c >>}) >>),
                                 SerializedPane({}) >>) :
                 c \in GroupWatchConfigs}

\* the live panes of the workspace, each with its group_watch_configs
LivePanes ==
    { << >> } \cup {<< l >> : l \in ConfigLists}
        \cup {<< << c1 >>, << c2 >> >> :
                 c1 \in {c \in GroupWatchConfigs : c.group_id = 1},
                 c2 \in {c \in GroupWatchConfigs : c.group_id = 2}}

RECURSIVE collect_group_watch_configs(_)
RECURSIVE collect_children(_)
\* the for loop over the children of a group
collect_children(children) ==
    IF children = << >> THEN << >>
    ELSE collect_group_watch_configs(Head(children))
            \o collect_children(Tail(children))

collect_group_watch_configs(pane_group) ==
    IF pane_group.kind = "Group" THEN collect_children(pane_group.children)
    ELSE IF pane_group.tab_ui_state = {} THEN << >>
    ELSE Unwrap(pane_group.tab_ui_state)

\* the configurations of the live panes, in the order the loops visit them
RECURSIVE pane_configs(_)
pane_configs(panes) ==
    IF panes = << >> THEN << >> ELSE Head(panes) \o pane_configs(Tail(panes))

\* group_configs.insert for every configuration of a list, in order
RECURSIVE insert_configs(_, _)
insert_configs(group_configs, configs) ==
    IF configs = << >> THEN group_configs
    ELSE insert_configs(
             MapPut(group_configs, Head(configs).group_id,
                    [root_path |-> Head(configs).root_path,
                     paused |-> Head(configs).paused]),
             Tail(configs))

\* group_configs with the serialized configurations inserted last
group_configs_serialized_last(serialized_group_configs, panes) ==
    insert_configs(insert_configs(EmptyMap, pane_configs(panes)),
                   serialized_group_configs)

\* the map reattach_watch_groups_from_panes builds before it starts the groups
group_configs(serialized_group_configs, panes) ==
    insert_configs(insert_configs(EmptyMap, serialized_group_configs),
                   pane_configs(panes))

\* what the calls of start change
Lifecycle ==
    [wg |-> watch_groups, request_ids |-> watch_request_ids,
     next_id |-> next_watch_request_id, starts |-> starts,
     live |-> live_watchers]

\* the call of start_watch_folder_for_group, as a function of what it changes
start_group(l, group_id, root_path, paused) ==
    [wg |-> MapRemove(l.wg, group_id),
     request_ids |-> MapPut(l.request_ids, group_id, l.next_id + 1),
     next_id |-> l.next_id + 1,
     starts |-> l.starts \cup
         {[group_id |-> group_id, request_id |-> l.next_id + 1,
           root_path |-> root_path, paused |-> paused]},
     live |-> DropState(l.live, l.wg, group_id)]

\* the loop over group_configs; order is the order of the HashMap
RECURSIVE start_each(_, _, _)
start_each(l, configs, order) ==
    IF order = << >> THEN l
    ELSE start_each(start_group(l, Head(order), configs[Head(order)].root_path,
                                configs[Head(order)].paused),
                    configs, Tail(order))

reattach_starts(l, serialized_group_configs, panes, order) ==
    start_each(l, group_configs(serialized_group_configs, panes), order)

reattach_watch_groups_from_panes(serialized_group_configs, panes, order) ==
    /\ order \in SeqsOf(DOMAIN group_configs(serialized_group_configs, panes))
    /\ LET l == reattach_starts(Lifecycle, serialized_group_configs, panes, order)
       IN /\ l.next_id <= scope.max_starts
          /\ watch_groups' = l.wg
          /\ watch_request_ids' = l.request_ids
          /\ next_watch_request_id' = l.next_id
          /\ starts' = l.starts
          /\ live_watchers' = l.live
          /\ IF order = << >> THEN watch_status' = watch_status
             ELSE watch_status' \in set_state(l.wg)
    /\ UNCHANGED << timers, opens, close_requests, items, next_item_id,
                    git_repo, git_status, scope >>

----------------------------------------------------------------------------
(* Event sources. *)

\* the watch_task of a live pair receives a batch and forwards its candidates
WatchTaskBatch(lw, batch) ==
    /\ lw \in live_watchers
    /\ batch \in Batches
    /\ IF candidate_paths(lw.root_path, batch) = << >>
       THEN UNCHANGED << watch_groups, timers, opens, close_requests >>
       ELSE Commit(handle_watch_fs_paths(World, lw.group_id,
                                         candidate_paths(lw.root_path, batch)))
    /\ UNCHANGED << watch_request_ids, next_watch_request_id, watch_status,
                    starts, live_watchers, items, next_item_id, git_repo,
                    git_status, scope >>

\* the store changes and emits an event; the subscription of every installed
\* group refreshes it
GitStoreEvent(gs, order) ==
    /\ gs \in GitStates
    /\ order \in SeqsOf(DOMAIN watch_groups)
    /\ git_repo' = gs.repo
    /\ git_status' = gs.status
    /\ Commit(RefreshEach([World EXCEPT !.git_repo = gs.repo,
                                        !.git_status = gs.status], order))
    /\ UNCHANGED << watch_request_ids, next_watch_request_id, watch_status,
                    starts, live_watchers, items, next_item_id, scope >>

\* RefreshTimerFires that runs the refresh and leaves the guard set
RefreshTimerKeepsGuard(t) ==
    /\ BagIn(t, timers)
    /\ Commit(refresh_watch_git_status_for_group(
                  [World EXCEPT !.timers = @ (-) SetToBag({t})], t.group_id))
    /\ UNCHANGED << watch_request_ids, next_watch_request_id, watch_status,
                    starts, live_watchers, items, next_item_id, git_repo,
                    git_status, scope >>

\* the 250ms timer of schedule_watch_refresh_for_group fires
RefreshTimerFires(t) ==
    /\ BagIn(t, timers)
    /\ LET w1 == [World EXCEPT !.timers = @ (-) SetToBag({t})]
           w2 == IF t.group_id \in DOMAIN w1.wg
                 THEN [w1 EXCEPT !.wg[t.group_id].refresh_pending = FALSE]
                 ELSE w1
       IN Commit(refresh_watch_git_status_for_group(w2, t.group_id))
    /\ UNCHANGED << watch_request_ids, next_watch_request_id, watch_status,
                    starts, live_watchers, items, next_item_id, git_repo,
                    git_status, scope >>

----------------------------------------------------------------------------
(* Open requests: the container resolves them, the continuation of         *)
(* open_watched_project_path records the result.                           *)

\* OpenedItem without the removal from pending_paths
OpenedItemKeepsPending(w, o, item_id) ==
    IF o.group_id \notin DOMAIN w.wg THEN w
    ELSE [w EXCEPT
            !.wg[o.group_id].watched_item_ids = MapPut(@, item_id, o.project_path),
            !.wg[o.group_id].watched_items =
                MapPut(@, o.project_path,
                       [item_id |-> item_id,
                        close_when_clean |-> o.close_when_clean,
                        was_dirty |->
                            IF o.close_when_clean
                            THEN o.opened_from_fs
                                   \/ is_project_path_dirty(w, o.project_path)
                            ELSE FALSE,
                        opened_from_fs |-> o.opened_from_fs,
                        seen_dirty |-> is_project_path_dirty(w, o.project_path)])]

\* OpenedItem with was_dirty set whenever close_when_clean is
OpenedItemAlwaysDirty(w, o, item_id) ==
    IF o.group_id \notin DOMAIN w.wg THEN w
    ELSE [w EXCEPT
            !.wg[o.group_id].pending_paths = @ \ {o.project_path},
            !.wg[o.group_id].watched_item_ids = MapPut(@, item_id, o.project_path),
            !.wg[o.group_id].watched_items =
                MapPut(@, o.project_path,
                       [item_id |-> item_id,
                        close_when_clean |-> o.close_when_clean,
                        was_dirty |-> o.close_when_clean,
                        opened_from_fs |-> o.opened_from_fs,
                        seen_dirty |-> is_project_path_dirty(w, o.project_path)])]

\* OpenedItem with was_dirty computed whatever close_when_clean is
OpenedItemDirtyRegardless(w, o, item_id) ==
    IF o.group_id \notin DOMAIN w.wg THEN w
    ELSE [w EXCEPT
            !.wg[o.group_id].pending_paths = @ \ {o.project_path},
            !.wg[o.group_id].watched_item_ids = MapPut(@, item_id, o.project_path),
            !.wg[o.group_id].watched_items =
                MapPut(@, o.project_path,
                       [item_id |-> item_id,
                        close_when_clean |-> o.close_when_clean,
                        was_dirty |->
                            o.opened_from_fs
                              \/ is_project_path_dirty(w, o.project_path),
                        opened_from_fs |-> o.opened_from_fs,
                        seen_dirty |-> is_project_path_dirty(w, o.project_path)])]

\* OpenedItem that records the item in every installed group when the group
\* of the request has no state
OpenedItemInAnyGroup(w, o, item_id) ==
    [w EXCEPT !.wg =
        [g \in DOMAIN w.wg |->
            IF g = o.group_id \/ o.group_id \notin DOMAIN w.wg
            THEN [w.wg[g] EXCEPT
                    !.pending_paths = @ \ {o.project_path},
                    !.watched_item_ids = MapPut(@, item_id, o.project_path),
                    !.watched_items =
                        MapPut(@, o.project_path,
                               [item_id |-> item_id,
                                close_when_clean |-> o.close_when_clean,
                                was_dirty |->
                                    IF o.close_when_clean
                                    THEN o.opened_from_fs
                                           \/ is_project_path_dirty(w, o.project_path)
                                    ELSE FALSE,
                                opened_from_fs |-> o.opened_from_fs,
                                seen_dirty |->
                                    is_project_path_dirty(w, o.project_path)])]
            ELSE w.wg[g]]]

\* the continuation after a successful open; opened_from_fs and seen_dirty
\* are history fields of the entry, not fields of WatchedItem: whether a
\* filesystem event opened it, and whether the store reported its path with
\* changes while it was tracked
OpenedItem(w, o, item_id) ==
    IF o.group_id \notin DOMAIN w.wg THEN w
    ELSE [w EXCEPT
            !.wg[o.group_id].pending_paths = @ \ {o.project_path},
            !.wg[o.group_id].watched_item_ids = MapPut(@, item_id, o.project_path),
            !.wg[o.group_id].watched_items =
                MapPut(@, o.project_path,
                       [item_id |-> item_id,
                        close_when_clean |-> o.close_when_clean,
                        was_dirty |->
                            IF o.close_when_clean
                            THEN o.opened_from_fs
                                   \/ is_project_path_dirty(w, o.project_path)
                            ELSE FALSE,
                        opened_from_fs |-> o.opened_from_fs,
                        seen_dirty |-> is_project_path_dirty(w, o.project_path)])]

\* an error is its chain of causes, outermost first; a cause is its message,
\* a sequence of phrases
BinaryPhrase == "Binary files are not supported"

OpenErrors ==
    { << << BinaryPhrase >> >>,
      << << "Failed to open" >>, << "buffer:", BinaryPhrase >> >>,
      << << "No such file" >> >>,
      << << "Failed to open" >>, << "Permission denied" >> >> }

\* some cause of the chain contains the phrase
is_binary_open_error(error) ==
    \E i \in DOMAIN error : \E j \in DOMAIN error[i] : error[i][j] = BinaryPhrase

\* what the continuation returns after a failed open: Err is logged by
\* detach_and_log_err
OpenFailureResult(error) ==
    IF is_binary_open_error(error) THEN "Ok" ELSE "Err"

\* OpenFailed that leaves the path pending
OpenFailedKeepsPending(w, o) == w

\* the continuation after a failed open
OpenFailed(w, o) ==
    IF o.group_id \notin DOMAIN w.wg THEN w
    ELSE [w EXCEPT !.wg[o.group_id].pending_paths = @ \ {o.project_path}]

\* the container opens the document: a new item, or the item it already
\* holds for this path in this group
OpenTargets(o) ==
    {i \in {next_item_id} : i <= scope.max_items}
        \cup item_for_project_path_in_group(World, o.project_path, o.group_id)

OpenSucceeds(o, item_id) ==
    /\ BagIn(o, opens)
    /\ item_id \in OpenTargets(o)
    /\ items' = MapPut(items, item_id,
                       [project_path |-> o.project_path, group |-> o.group_id])
    /\ next_item_id' = IF item_id = next_item_id THEN next_item_id + 1
                       ELSE next_item_id
    /\ Commit(OpenedItem([World EXCEPT !.opens = @ (-) SetToBag({o})], o, item_id))
    /\ UNCHANGED << watch_request_ids, next_watch_request_id, watch_status,
                    starts, live_watchers, git_repo, git_status, scope >>

OpenFails(o, error) ==
    /\ BagIn(o, opens)
    /\ error \in OpenErrors
    /\ OpenFailureResult(error) \in {"Ok", "Err"}
    /\ Commit(OpenFailed([World EXCEPT !.opens = @ (-) SetToBag({o})], o))
    /\ UNCHANGED << watch_request_ids, next_watch_request_id, watch_status,
                    starts, live_watchers, items, next_item_id, git_repo,
                    git_status, scope >>

----------------------------------------------------------------------------
(* The container's calls into the store. *)

\* the user edits an open document: it is promoted
ItemPromoted(item_id) ==
    /\ item_id \in DOMAIN items
    /\ watch_groups' = promote_watched_item(watch_groups, item_id)
    /\ UNCHANGED << watch_request_ids, next_watch_request_id, watch_status,
                    starts, live_watchers, timers, opens, close_requests, items,
                    next_item_id, git_repo, git_status, scope >>

\* the user closes an open document: the container forgets it
ItemClosedByUser(item_id) ==
    /\ item_id \in DOMAIN items
    /\ items' = MapRemove(items, item_id)
    /\ watch_groups' = forget_watched_item(watch_groups, item_id)
    /\ UNCHANGED << watch_request_ids, next_watch_request_id, watch_status,
                    starts, live_watchers, timers, opens, close_requests,
                    next_item_id, git_repo, git_status, scope >>

\* a close request of close_watched_item completes in the container
CloseCompletes(item_id) ==
    /\ item_id \in close_requests
    /\ close_requests' = close_requests \ {item_id}
    /\ items' = MapRemove(items, item_id)
    /\ watch_groups' = forget_watched_item(watch_groups, item_id)
    /\ UNCHANGED << watch_request_ids, next_watch_request_id, watch_status,
                    starts, live_watchers, timers, opens, next_item_id,
                    git_repo, git_status, scope >>

----------------------------------------------------------------------------

Next ==
    \/ \E g \in scope.groups, r \in scope.roots, p \in BOOLEAN :
          start_watch_folder_for_group(g, r, p)
    \/ \E s \in starts : StartResolveFails(s)
    \/ \E s \in starts : StartInstalls(s)
    \/ \E g \in scope.groups : stop_watching_group(g)
    \/ stop_watching_folder
    \/ \E g \in scope.groups, p \in BOOLEAN : set_watch_group_paused(g, p)
    \/ \E order \in SeqsOf(DOMAIN watch_groups) : toggle_watch_pause(order)
    \/ \E lw \in live_watchers, b \in Batches : WatchTaskBatch(lw, b)
    \/ \E gs \in GitStates, order \in SeqsOf(DOMAIN watch_groups) :
          GitStoreEvent(gs, order)
    \/ \E t \in BagToSet(timers) : RefreshTimerFires(t)
    \/ \E o \in BagToSet(opens), i \in 1..scope.max_items : OpenSucceeds(o, i)
    \/ \E o \in BagToSet(opens), error \in OpenErrors : OpenFails(o, error)
    \/ \E i \in DOMAIN items : ItemPromoted(i)
    \/ \E i \in DOMAIN items : ItemClosedByUser(i)
    \/ \E i \in close_requests : CloseCompletes(i)

Init == InitIn(LifecycleScope)

Spec == Init /\ [][Next]_vars

InitTracking == InitIn(TrackingScope)

SpecTracking == InitTracking /\ [][Next]_vars

InitGroups == InitIn(GroupsScope)

SpecGroups == InitGroups /\ [][Next]_vars

\* the container resolves an open request, one way or the other
ResolveOpen(o) ==
    \/ \E i \in 1..scope.max_items : OpenSucceeds(o, i)
    \/ \E error \in OpenErrors : OpenFails(o, error)

\* every open request that a group of the Tracking scope can issue
TrackingOpenRequests ==
    [group_id : TrackingScope.groups, project_path : GitPaths,
     close_when_clean : BOOLEAN, opened_from_fs : BOOLEAN,
     issued_by : 1..TrackingStarts]

\* Tracking, with a container that resolves every open request
SpecTrackingResolving ==
    /\ SpecTracking
    /\ \A o \in TrackingOpenRequests : WF_vars(ResolveOpen(o))

\* every timer that a group of the Tracking scope can start
TrackingTimers == [group_id : TrackingScope.groups, issued_by : 1..TrackingStarts]

\* Tracking, with timers that fire
SpecTrackingDebounced ==
    /\ SpecTracking
    /\ \A t \in TrackingTimers : WF_vars(RefreshTimerFires(t))

InitStatus == InitIn(StatusScope)

InitDirty == InitIn(DirtyScope)

\* a group is started, paused and unpaused while the store changes; the
\* open requests of the refresh fail
NextDirty ==
    \/ \E g \in scope.groups, r \in scope.roots, p \in BOOLEAN :
          start_watch_folder_for_group(g, r, p)
    \/ \E s \in starts : StartInstalls(s)
    \/ \E g \in scope.groups, p \in BOOLEAN : set_watch_group_paused(g, p)
    \/ \E gs \in GitStates, order \in SeqsOf(DOMAIN watch_groups) :
          GitStoreEvent(gs, order)
    \/ \E o \in BagToSet(opens), error \in OpenErrors : OpenFails(o, error)

SpecDirty == InitDirty /\ [][NextDirty]_vars

SpecStatus == InitStatus /\ [][Next]_vars

InitRestart == InitIn(RestartScope)

SpecRestart == InitRestart /\ [][Next]_vars

InitRestore == InitIn(RestoreScope)

\* the groups of a persisted layout are restored, their starts complete or
\* fail, and they are paused, unpaused and stopped
NextRestore ==
    \/ \E pane_group \in SerializedPaneGroups, panes \in LivePanes :
          \E order \in SeqsOf(DOMAIN group_configs(
                          collect_group_watch_configs(pane_group), panes)) :
              reattach_watch_groups_from_panes(
                  collect_group_watch_configs(pane_group), panes, order)
    \/ \E s \in starts : StartResolveFails(s)
    \/ \E s \in starts : StartInstalls(s)
    \/ \E g \in scope.groups : stop_watching_group(g)
    \/ \E g \in scope.groups, p \in BOOLEAN : set_watch_group_paused(g, p)

SpecRestore == InitRestore /\ [][NextRestore]_vars

----------------------------------------------------------------------------
(* Properties. *)

\* the number of debounce timers in flight for a group
TimersInFlight(g) ==
    LET chosen == {t \in BagToSet(timers) : t.group_id = g}
    IN IF chosen = {} THEN 0 ELSE BagCardinality([t \in chosen |-> timers[t]])

\* C1: in every installed group no project path is both a key of
\* watched_items and a member of pending_paths.
C1_WatchedAndPendingDisjoint ==
    \A g \in DOMAIN watch_groups :
        (DOMAIN watch_groups[g].watched_items) \cap watch_groups[g].pending_paths = {}

\* a path is tracked while another open request for it is still in flight
C1_Witness ==
    \E g \in DOMAIN watch_groups : \E o \in BagToSet(opens) :
        /\ o.group_id = g
        /\ o.project_path \in DOMAIN watch_groups[g].watched_items

\* C2: in every installed group watched_items and watched_item_ids are exact
\* inverses: watched_items[p].item_id = i if and only if watched_item_ids[i] = p.
C2_ItemMapsAreInverse ==
    \A g \in DOMAIN watch_groups :
        LET st == watch_groups[g]
        IN /\ \A pp \in DOMAIN st.watched_items :
                 /\ st.watched_items[pp].item_id \in DOMAIN st.watched_item_ids
                 /\ st.watched_item_ids[st.watched_items[pp].item_id] = pp
           /\ \A i \in DOMAIN st.watched_item_ids :
                 /\ st.watched_item_ids[i] \in DOMAIN st.watched_items
                 /\ st.watched_items[st.watched_item_ids[i]].item_id = i

\* the requests a handler adds to the opens in flight
Requested(after) == after.opens (-) opens

\* the Created events of plain files under the root that no filter matches
UnfilteredCreations(st) ==
    {e \in Events :
        /\ e.kind = "Created"
        /\ e.is_file
        /\ StartsWith(e.path, st.root_path)
        /\ ~ is_hidden_path(st.root_path, e.path)
        /\ ~ is_ignored_path(st.root_path, e.path, watch_ignored_names)
        /\ ~ is_binary_artifact_abs_path(e.path)}

C4_OneOpenPerBatchPath ==
    [][\A o \in BagToSet(opens') :
          o.opened_from_fs => CopiesIn(o, opens') <= CopiesIn(o, opens) + 1]_vars

\* the watched entries of an item id in the installed groups
EntriesOf(item_id) ==
    {e \in UNION {Range(watch_groups[g].watched_items) : g \in DOMAIN watch_groups} :
        e.item_id = item_id}

\* C5, as stated: a close request is issued for a tracked item only if the
\* store reported its path with changes, at open completion or at an earlier
\* refresh, while it was tracked.
C5_ClosedOnlyAfterReportedDirty ==
    [][\A i \in close_requests' \ close_requests :
          \E e \in EntriesOf(i) : e.seen_dirty]_vars

\* C5, amended: a close request is issued only for an item that was tracked
\* before the refresh and whose path the store reported with changes while
\* it was tracked, or that a filesystem event opened.
C5_ClosedOnlyAfterDirtyOrFsOpen ==
    [][\A i \in close_requests' \ close_requests :
          \E e \in EntriesOf(i) : e.seen_dirty \/ e.opened_from_fs]_vars

\* a close request is in flight while a tracked item that was never dirty
\* stays tracked
C5_Witness ==
    /\ close_requests # {}
    /\ \E g \in DOMAIN watch_groups :
          \E e \in Range(watch_groups[g].watched_items) :
              e.close_when_clean /\ ~ e.was_dirty

\* C6: when a start continuation completes after stop_watching_group removed
\* the request id of its group, no state is installed for the group, no
\* watcher or task of the group stays alive and no refresh runs.
C6_StoppedStartInstallsNothing ==
    [][\A s \in starts \ starts' :
          s.group_id \notin DOMAIN watch_request_ids =>
              /\ s.group_id \notin DOMAIN watch_groups'
              /\ ~ \E lw \in live_watchers' : lw.group_id = s.group_id
              /\ opens' = opens
              /\ timers' = timers
              /\ close_requests' = close_requests]_vars

\* a start is in flight for a group that was stopped after the start
C6_Witness ==
    \E s \in starts : s.group_id \notin DOMAIN watch_request_ids

\* C7: every group has at most one live watcher and task, and a live pair is
\* the pair of the installed state of its group.
C7_AtMostOneLivePair ==
    /\ \A g \in scope.groups :
          Cardinality({lw \in live_watchers : lw.group_id = g}) <= 1
    /\ \A lw \in live_watchers :
          /\ lw.group_id \in DOMAIN watch_groups
          /\ watch_groups[lw.group_id].request_id = lw.request_id

\* a superseded start is in flight while the pair of a newer start is live
C7_Witness ==
    \E s \in starts : \E lw \in live_watchers :
        s.group_id = lw.group_id /\ s.request_id < lw.request_id

\* the group a step of start_watch_folder_for_group is called for
Started(g) ==
    /\ next_watch_request_id' # next_watch_request_id
    /\ g \in DOMAIN watch_request_ids'
    /\ watch_request_ids'[g] = next_watch_request_id'

\* a step installs a state for g
Installed(g) == g \in DOMAIN watch_groups' /\ g \notin DOMAIN watch_groups

\* the start removes the previous state and its pair at the call
StartTearsDown ==
    \A g \in scope.groups :
        Started(g) =>
            /\ watch_groups' = MapRemove(watch_groups, g)
            /\ ~ \E lw \in live_watchers' : lw.group_id = g
            /\ watch_status' \in set_state(MapRemove(watch_groups, g))

\* C8, as stated: a start on a running group removes the previous state at
\* the call, and the state its continuation installs is the only one of the
\* group, with empty watched_items, watched_item_ids and pending_paths and
\* refresh_pending false.
C8_RestartInstallsEmptyState ==
    [][/\ StartTearsDown
       /\ \A g \in scope.groups :
             Installed(g) =>
                 /\ Cardinality({lw \in live_watchers' : lw.group_id = g}) = 1
                 /\ watch_groups'[g].watched_items = EmptyMap
                 /\ watch_groups'[g].watched_item_ids = EmptyMap
                 /\ watch_groups'[g].pending_paths = {}
                 /\ ~ watch_groups'[g].refresh_pending]_vars

\* C8, amended: as stated, but pending_paths holds the dirty paths the
\* start's own refresh requested to open (none when started paused).
C8_RestartInstallsFreshState ==
    [][/\ StartTearsDown
       /\ \A g \in scope.groups :
             Installed(g) =>
                 /\ Cardinality({lw \in live_watchers' : lw.group_id = g}) = 1
                 /\ watch_groups'[g].watched_items = EmptyMap
                 /\ watch_groups'[g].watched_item_ids = EmptyMap
                 /\ ~ watch_groups'[g].refresh_pending
                 /\ watch_groups'[g].pending_paths =
                       IF watch_groups'[g].paused THEN {}
                       ELSE {d \in git_status :
                               /\ git_repo
                               /\ StartsWith(d.path, watch_groups'[g].root_rel_path)
                               /\ item_for_project_path_in_group(World, d, g) = {}}
                 /\ \A d \in watch_groups'[g].pending_paths :
                       \E o \in BagToSet(opens') :
                           /\ o.group_id = g
                           /\ o.project_path = d
                           /\ CopiesIn(o, opens') = CopiesIn(o, opens) + 1]_vars

\* a restarted group is installed with nothing tracked while a document of
\* the group is still open
C8_Witness ==
    \E g \in DOMAIN watch_groups : \E i \in DOMAIN items :
        /\ watch_groups[g].request_id > 1
        /\ items[i].group = g
        /\ watch_groups[g].watched_items = EmptyMap

\* C9: a continuation whose request id is not the one stored for its group
\* changes nothing in the store, and a state is installed only by the most
\* recent start of its group.
C9_SupersededStartChangesNothing ==
    [][/\ \A s \in starts \ starts' :
             (/\ s.group_id \in DOMAIN watch_request_ids
              /\ watch_request_ids[s.group_id] # s.request_id) =>
                 /\ watch_groups' = watch_groups
                 /\ watch_request_ids' = watch_request_ids
                 /\ watch_status' = watch_status
                 /\ live_watchers' = live_watchers
       /\ \A g \in scope.groups :
             Installed(g) =>
                 /\ watch_request_ids[g] = watch_groups'[g].request_id
                 /\ \A s \in starts :
                       s.group_id = g => s.request_id <= watch_groups'[g].request_id]_vars

\* two starts of one group are in flight
C9_Witness ==
    \E s1 \in starts : \E s2 \in starts :
        s1.group_id = s2.group_id /\ s1.request_id < s2.request_id

\* C10: every group has at most one debounce timer in flight.
C10_AtMostOneTimer ==
    \A g \in scope.groups :
        TimersInFlight(g) <= 1

\* the tracked paths of g that a refresh finds clean and ready to close
ReadyToClose(g) ==
    {p \in DOMAIN watch_groups[g].watched_items :
        /\ watch_groups[g].watched_items[p].close_when_clean
        /\ watch_groups[g].watched_items[p].was_dirty
        /\ p \notin collect_watch_dirty_paths_for_group(World, g)}

\* C11: a refresh of an unpaused group that finds a tracked item with
\* close_when_clean and was_dirty whose path is not in the dirty set issues a
\* close request for its document and leaves the item in neither
\* watched_items nor watched_item_ids.
C11_CleanItemClosedAndUntracked ==
    \A g \in DOMAIN watch_groups :
        ~ watch_groups[g].paused =>
            LET after == refresh_watch_git_status_for_group(World, g)
            IN \A p \in ReadyToClose(g) :
                  LET item_id == watch_groups[g].watched_items[p].item_id
                  IN /\ item_id \in after.closes
                     /\ p \notin DOMAIN after.wg[g].watched_items
                     /\ item_id \notin DOMAIN after.wg[g].watched_item_ids

\* a refresh has closed an item: nothing is tracked, the close is in flight
\* and the document is still open
C11_Witness ==
    \E g \in DOMAIN watch_groups : \E i \in close_requests :
        /\ ~ watch_groups[g].paused
        /\ i \in DOMAIN items
        /\ items[i].group = g
        /\ i \notin DOMAIN watch_groups[g].watched_item_ids
        /\ items[i].project_path \notin DOMAIN watch_groups[g].watched_items

\* the components of an event's path below the root of a group
Below(st, e) == SubSeq(e.path, Len(st.root_path) + 1, Len(e.path))

\* two names that differ at most in the case of their ASCII letters
SameIgnoringCase(a, b) ==
    /\ Len(a) = Len(b)
    /\ \A i \in DOMAIN a :
          (IF a[i] \in DOMAIN UpperToLower THEN UpperToLower[a[i]] ELSE a[i])
            = (IF b[i] \in DOMAIN UpperToLower THEN UpperToLower[b[i]] ELSE b[i])

\* an event the path filter rejects: a dot-prefixed component, a component
\* that is a configured ignored name up to case, a binary-artifact
\* extension, or not a plain file
Rejected(st, e) ==
    \/ \E i \in DOMAIN Below(st, e) : Below(st, e)[i][1] = "."
    \/ \E i \in DOMAIN Below(st, e) : \E n \in OpenFoldersIgnore :
          SameIgnoringCase(Below(st, e)[i], n)
    \/ \E x \in BinaryExtensions :
          LET name == e.path[Len(e.path)]
          IN /\ Len(name) > Len(x)
             /\ name[Len(name) - Len(x)] = "."
             /\ SubSeq(name, Len(name) - Len(x) + 1, Len(name)) = x
    \/ ~ e.is_file

\* what the watch_task of a group does with a batch
Dispatched(g, batch) ==
    IF candidate_paths(watch_groups[g].root_path, batch) = << >> THEN World
    ELSE handle_watch_fs_paths(World, g,
                               candidate_paths(watch_groups[g].root_path, batch))

\* C12: a filesystem event whose path below the root has a dot-prefixed
\* component, a component equal up to case to a configured ignored name or a
\* binary-artifact extension, or that is not a plain file, produces no open
\* request for its path and does not add it to pending_paths.
C12_RejectedEventsOpenNothing ==
    \A g \in DOMAIN watch_groups : \A b \in Batches :
        LET st == watch_groups[g]
            after == Dispatched(g, b)
        IN \A i \in DOMAIN b :
              (/\ Rejected(st, b[i])
               /\ \A j \in DOMAIN b : b[j].path = b[i].path => Rejected(st, b[j])) =>
                  LET pp == [worktree_id |-> st.worktree_id, path |-> Below(st, b[i])]
                  IN /\ \A o \in BagToSet(Requested(after)) : o.project_path # pp
                     /\ pp \in after.wg[g].pending_paths => pp \in st.pending_paths

\* the live task of an unpaused group has handled a batch (refresh_pending
\* is set) and no document was ever opened and nothing is pending
C12_Witness ==
    \E lw \in live_watchers :
        /\ lw.group_id \in DOMAIN watch_groups
        /\ ~ watch_groups[lw.group_id].paused
        /\ watch_groups[lw.group_id].refresh_pending
        /\ watch_groups[lw.group_id].pending_paths = {}
        /\ opens = EmptyBag
        /\ next_item_id = 1
        /\ \E e \in Events :
              Rejected(watch_groups[lw.group_id], e) /\ e.is_file
                 /\ e.kind \in {"Created", "Changed"}

\* the open requests a step adds for group g
NewOpens(g) ==
    {o \in BagToSet(opens') : o.group_id = g /\ CopiesIn(o, opens') > CopiesIn(o, opens)}

\* the close requests a step adds for items that g tracks
NewCloses(g) ==
    {i \in close_requests' \ close_requests : i \in DOMAIN watch_groups[g].watched_item_ids}

\* C13: while a group stays paused no step issues an open or a close request
\* for it, and the step that unpauses it requests only paths that the store
\* reports dirty, none on account of a filesystem event.
C13_PausedGroupIssuesNothing ==
    [][\A g \in (DOMAIN watch_groups) \cap (DOMAIN watch_groups') :
          watch_groups[g].paused =>
              IF watch_groups'[g].paused
              THEN NewOpens(g) = {} /\ NewCloses(g) = {}
              ELSE \A o \in NewOpens(g) :
                      /\ ~ o.opened_from_fs
                      /\ is_project_path_dirty(World, o.project_path)]_vars

\* a paused group has a live task and a timer in flight while the store
\* reports a path dirty that is neither open nor pending
C13_Witness ==
    \E g \in DOMAIN watch_groups :
        /\ watch_groups[g].paused
        /\ \E lw \in live_watchers : lw.group_id = g
        /\ \E t \in BagToSet(timers) : t.group_id = g
        /\ \E d \in collect_watch_dirty_paths_for_group(World, g) :
              /\ d \notin watch_groups[g].pending_paths
              /\ item_for_project_path_in_group(World, d, g) = {}

\* the dirty paths of g that are neither open in g nor pending
DirtyUnopened(g) ==
    {d \in collect_watch_dirty_paths_for_group(World, g) :
        /\ d \notin watch_groups[g].pending_paths
        /\ item_for_project_path_in_group(World, d, g) = {}}

\* C14: set_paused(g, true) on an installed group changes only the paused
\* flag and the status derived from it; set_paused(g, false) clears the flag
\* and runs the refresh in the same step: every dirty path that is neither
\* open nor pending is requested and made pending, and every tracked item
\* that is clean and ready to close is closed and no longer tracked.
C14_PauseFlipsFlagUnpauseRefreshes ==
    [][\A g \in DOMAIN watch_groups :
          /\ set_watch_group_paused(g, TRUE) =>
                /\ watch_groups' = [watch_groups EXCEPT ![g].paused = TRUE]
                /\ watch_status' \in set_state(watch_groups')
                /\ UNCHANGED << live_watchers, opens, close_requests, timers,
                                watch_request_ids, starts >>
          /\ set_watch_group_paused(g, FALSE) =>
                /\ g \in DOMAIN watch_groups'
                /\ ~ watch_groups'[g].paused
                /\ \A d \in DirtyUnopened(g) :
                      /\ d \in watch_groups'[g].pending_paths
                      /\ \E o \in NewOpens(g) : o.project_path = d
                /\ \A p \in ReadyToClose(g) :
                      /\ watch_groups[g].watched_items[p].item_id \in close_requests'
                      /\ p \notin DOMAIN watch_groups'[g].watched_items
                /\ UNCHANGED << live_watchers, timers, watch_request_ids, starts >>]_vars

\* a group is paused while a path is pending, its open is in flight and a
\* timer is pending: pausing left them as they were
C14_Witness ==
    \E g \in DOMAIN watch_groups :
        /\ watch_groups[g].paused
        /\ watch_groups[g].refresh_pending
        /\ \E o \in BagToSet(opens) :
              o.group_id = g /\ o.project_path \in watch_groups[g].pending_paths

\* the entries of a state whose item is not item_id
OtherEntries(st, item_id) ==
    {<< p, st.watched_items[p] >> : p \in
        {q \in DOMAIN st.watched_items : st.watched_items[q].item_id # item_id}}

\* the paths under which a state knows item_id
PathsOf(st, item_id) ==
    {st.watched_item_ids[i] : i \in (DOMAIN st.watched_item_ids) \cap {item_id}}
        \cup {p \in DOMAIN st.watched_items : st.watched_items[p].item_id = item_id}

\* C15: promote(item) removes the item from watched_item_ids and its path
\* from watched_items in every group, issues no close request, leaves every
\* other tracked item and the pending entry of every other path unchanged,
\* and no later refresh closes an item that is not tracked.
C15_PromoteUntracksOnlyTheItem ==
    [][/\ \A i \in DOMAIN items :
             ItemPromoted(i) =>
                 /\ close_requests' = close_requests
                 /\ opens' = opens
                 /\ i \in DOMAIN items'
                 /\ \A g \in DOMAIN watch_groups :
                       /\ g \in DOMAIN watch_groups'
                       /\ PathsOf(watch_groups'[g], i) = {}
                       /\ OtherEntries(watch_groups'[g], i)
                            = OtherEntries(watch_groups[g], i)
                       /\ DOMAIN watch_groups'[g].watched_item_ids
                            = (DOMAIN watch_groups[g].watched_item_ids) \ {i}
                       /\ watch_groups'[g].pending_paths
                            = watch_groups[g].pending_paths \ PathsOf(watch_groups[g], i)
       /\ \A i \in close_requests' \ close_requests :
             \E g \in DOMAIN watch_groups : PathsOf(watch_groups[g], i) # {}]_vars

\* item_id is in watched_item_ids of no group
Untracked(wg, item_id) ==
    \A g \in DOMAIN wg : item_id \notin DOMAIN wg[g].watched_item_ids

\* C16: forget(item) removes what promote(item) removes, in every group; a
\* second forget or promote changes nothing, and forget or promote of an
\* item that no group tracks leaves the store as it is.
C16_ForgetIsPromoteAndIdempotent ==
    \A i \in 1..scope.max_items :
        /\ forget_watched_item(watch_groups, i) = promote_watched_item(watch_groups, i)
        /\ Untracked(forget_watched_item(watch_groups, i), i)
        /\ forget_watched_item(forget_watched_item(watch_groups, i), i)
             = forget_watched_item(watch_groups, i)
        /\ promote_watched_item(forget_watched_item(watch_groups, i), i)
             = forget_watched_item(watch_groups, i)
        /\ Untracked(watch_groups, i) =>
              /\ forget_watched_item(watch_groups, i) = watch_groups
              /\ promote_watched_item(watch_groups, i) = watch_groups

\* auto-close has forgotten an item whose close is still in flight while
\* another item is tracked: the forget of the close will be a second one
C16_Witness ==
    \E i \in close_requests : \E g \in DOMAIN watch_groups :
        /\ i \in DOMAIN items
        /\ Untracked(watch_groups, i)
        /\ \E j \in DOMAIN watch_groups[g].watched_item_ids : j # i

\* the group ids that have no installed state
Missing == scope.groups \ DOMAIN watch_groups

\* C17: for a group id without installed state, a filesystem batch, a
\* refresh, a refresh request, set_paused and a timer that fires change no
\* group's state, start no timer and issue no open or close request.
C17_MissingGroupIsNoOp ==
    [][/\ \A g \in Missing :
             /\ \A b \in Batches : \A r \in Roots :
                   handle_watch_fs_paths(World, g, candidate_paths(r, b)) = World
             /\ refresh_watch_git_status_for_group(World, g) = World
             /\ schedule_watch_refresh_for_group(World, g) = World
             /\ \A p \in BOOLEAN :
                   set_watch_group_paused(g, p) => UNCHANGED vars
       /\ \A t \in BagToSet(timers) :
             (t.group_id \in Missing /\ RefreshTimerFires(t)) =>
                 /\ watch_groups' = watch_groups
                 /\ opens' = opens
                 /\ close_requests' = close_requests
                 /\ timers' = timers (-) SetToBag({t})
                 /\ watch_status' = watch_status]_vars

\* a timer is in flight for a group that has no state while another group
\* is installed and tracks or awaits a path
C17_Witness ==
    \E t \in BagToSet(timers) : \E g \in DOMAIN watch_groups :
        /\ t.group_id \in Missing
        /\ g # t.group_id
        /\ watch_groups[g].pending_paths # {}

\* the absolute path of a project path of a group
AbsPath(st, pp) == st.root_path \o pp.path

\* C18: when an open request for P of g fails, P leaves g's pending_paths
\* whatever the error, nothing becomes tracked, and a later event for P
\* issues a new request (when g is unpaused and no document for P is open
\* and P is not pending again); the failure is swallowed exactly when a
\* cause of the error is the binary-content failure.
C18_FailedOpenReleasesPath ==
    [][\A o \in BagToSet(opens) : \A error \in OpenErrors :
          OpenFails(o, error) =>
              /\ DOMAIN watch_groups' = DOMAIN watch_groups
              /\ \A g \in DOMAIN watch_groups :
                    /\ watch_groups'[g].watched_items = watch_groups[g].watched_items
                    /\ watch_groups'[g].watched_item_ids = watch_groups[g].watched_item_ids
                    /\ watch_groups'[g].pending_paths =
                          IF g = o.group_id
                          THEN watch_groups[g].pending_paths \ {o.project_path}
                          ELSE watch_groups[g].pending_paths
              /\ \A g \in DOMAIN watch_groups :
                    (/\ g = o.group_id
                     /\ ~ watch_groups[g].paused
                     /\ item_for_project_path_in_group(World, o.project_path, g) = {}) =>
                        LET after == handle_watch_fs_paths(World', g,
                                         << AbsPath(watch_groups[g], o.project_path) >>)
                        IN \E r \in BagToSet(after.opens (-) opens') :
                              r.project_path = o.project_path
              /\ OpenFailureResult(error) =
                    IF error \in { << << BinaryPhrase >> >>,
                                   << << "Failed to open" >>,
                                      << "buffer:", BinaryPhrase >> >> }
                    THEN "Ok" ELSE "Err"]_vars

\* an unpaused group has a dirty path that is neither pending nor open
\* although no document was ever opened: its open has failed
C18_Witness ==
    \E g \in DOMAIN watch_groups :
        /\ ~ watch_groups[g].paused
        /\ DirtyUnopened(g) # {}
        /\ next_item_id = 1

\* C19: after stop_all the store holds no GroupWatchState and no start that
\* is in flight can install one: none of them holds the request id stored
\* for its group.
C19_StopAllCancelsStartsInFlight ==
    LET after == StopAllStore(watch_groups, watch_request_ids)
    IN /\ after.wg = EmptyMap
       /\ \A s \in starts : ~ IsCurrentRequest(after.request_ids, s)

\* C20: when the worktree resolution of a start fails, its continuation
\* installs no state, builds no watcher or task, runs no refresh and leaves
\* the state of every group as it is; the group of a start that was still
\* the current one has no state afterwards, and the store stays usable.
C20_FailedResolutionInstallsNothing ==
    [][\A s \in starts :
          StartResolveFails(s) =>
              /\ watch_groups' = watch_groups
              /\ live_watchers' = live_watchers
              /\ opens' = opens
              /\ timers' = timers
              /\ close_requests' = close_requests
              /\ watch_status' = watch_status
              /\ IsCurrentRequest(watch_request_ids, s) =>
                    s.group_id \notin DOMAIN watch_groups'
              /\ next_watch_request_id' = next_watch_request_id]_vars

\* the start of a group has failed (its request id is stored, no start is in
\* flight for it and it has no state) while the other group is installed
C20_Witness ==
    \E g \in DOMAIN watch_request_ids : \E h \in DOMAIN watch_groups :
        /\ g \notin DOMAIN watch_groups
        /\ \A s \in starts : s.group_id # g
        /\ h # g
        /\ \E lw \in live_watchers : lw.group_id = h

\* C21: the status is the projection of the store after every operation: it
\* is absent exactly when no group is installed; otherwise its group count
\* is the number of installed groups, its paused count the number of
\* installed groups with paused set (at most the group count), and its root
\* path the root_path of an installed group.
C21_StatusIsProjectionOfStore ==
    IF DOMAIN watch_groups = {}
    THEN watch_status = {}
    ELSE /\ Cardinality(watch_status) = 1
         /\ \A s \in watch_status :
               /\ s.watched_group_count = Cardinality(DOMAIN watch_groups)
               /\ s.paused_group_count =
                     Cardinality({g \in DOMAIN watch_groups : watch_groups[g].paused})
               /\ s.paused_group_count <= s.watched_group_count
               /\ \E g \in DOMAIN watch_groups :
                     s.first_root_path = watch_groups[g].root_path

\* two groups on different roots are installed, one of them paused
C21_Witness ==
    /\ DOMAIN watch_groups = {1, 2}
    /\ watch_groups[1].root_path # watch_groups[2].root_path
    /\ watch_groups[1].paused
    /\ ~ watch_groups[2].paused

\* C22: a path that is in pending_paths of a group is eventually out of it
\* (or the group is no longer installed) when the container resolves every
\* open request, and a pending path always has an open request in flight:
\* none stays pending after its open has resolved.
C22_PendingPathIsReleased ==
    /\ \A g \in TrackingScope.groups : \A p \in GitPaths :
          (g \in DOMAIN watch_groups /\ p \in watch_groups[g].pending_paths)
             ~> (g \notin DOMAIN watch_groups \/ p \notin watch_groups[g].pending_paths)
    /\ [](\A g \in DOMAIN watch_groups : \A p \in watch_groups[g].pending_paths :
             \E o \in BagToSet(opens) : o.group_id = g /\ o.project_path = p)

\* the open of a path has resolved: the path is tracked, nothing is pending
\* and no open is in flight
C22_Witness ==
    \E g \in DOMAIN watch_groups :
        /\ watch_groups[g].watched_items # EmptyMap
        /\ watch_groups[g].pending_paths = {}
        /\ opens = EmptyBag

\* C23: one refresh of an unpaused group requests every dirty path that is
\* neither open nor pending, then enables close_when_clean, then evaluates
\* closing: a tracked item whose path is in the dirty set is not closed, stays
\* tracked under the same item id and has was_dirty set; a tracked item
\* whose path is not in the dirty set is closed in this refresh when
\* close_when_clean and was_dirty hold after the enabling step, also when
\* this refresh is the one that enabled it, and is left alone otherwise.
C23_RefreshOpensEnablesThenCloses ==
    \A g \in DOMAIN watch_groups :
        ~ watch_groups[g].paused =>
            LET st == watch_groups[g]
                after == refresh_watch_git_status_for_group(World, g)
                dirty == collect_watch_dirty_paths_for_group(World, g)
            IN /\ \A d \in dirty :
                     IF d \in DirtyUnopened(g)
                     THEN /\ d \in after.wg[g].pending_paths
                          /\ \E o \in BagToSet(Requested(after)) :
                                o.group_id = g /\ o.project_path = d
                     ELSE \A o \in BagToSet(Requested(after)) : o.project_path # d
               /\ \A p \in DOMAIN st.watched_items :
                     LET e == st.watched_items[p]
                         enabled_now == ~ e.close_when_clean
                                          /\ should_close_when_clean(World, p)
                     IN IF p \in dirty
                        THEN /\ e.item_id \notin after.closes \ close_requests
                             /\ p \in DOMAIN after.wg[g].watched_items
                             /\ after.wg[g].watched_items[p].item_id = e.item_id
                             /\ after.wg[g].watched_items[p].was_dirty
                        ELSE IF enabled_now \/ (e.close_when_clean /\ e.was_dirty)
                        THEN e.item_id \in DOMAIN items =>
                                /\ e.item_id \in after.closes
                                /\ p \notin DOMAIN after.wg[g].watched_items
                        ELSE /\ e.item_id \notin after.closes \ close_requests
                             /\ after.wg[g].watched_items[p] = e

\* a refresh found the tracked item of a dirty path and left it open: the
\* item was opened for a filesystem event, the store has reported its path
\* dirty while it was tracked, and no timer, open or close is in flight
C23_Witness ==
    \E g \in DOMAIN watch_groups :
        \E p \in collect_watch_dirty_paths_for_group(World, g) :
            /\ ~ watch_groups[g].paused
            /\ p \in DOMAIN watch_groups[g].watched_items
            /\ watch_groups[g].watched_items[p].opened_from_fs
            /\ watch_groups[g].watched_items[p].seen_dirty
            /\ watch_groups[g].watched_items[p].was_dirty
            /\ ~ watch_groups[g].refresh_pending
            /\ timers = EmptyBag
            /\ opens = EmptyBag
            /\ close_requests = {}

\* the entry that the completion of open request o has inserted
Inserted(o) == watch_groups'[o.group_id].watched_items[o.project_path]

\* C24, as stated: the entry inserted when an open succeeds has was_dirty
\* true if a filesystem event triggered the open or the store reports the
\* path dirty at completion, false otherwise, whatever close_when_clean is.
C24_WasDirtyWhateverCloseWhenClean ==
    [][\A o \in BagToSet(opens) : \A i \in 1..scope.max_items :
          (OpenSucceeds(o, i) /\ o.group_id \in DOMAIN watch_groups) =>
              Inserted(o).was_dirty =
                  (o.opened_from_fs \/ is_project_path_dirty(World, o.project_path))]_vars

\* C24, amended: the inserted entry carries the item id and the request's
\* close_when_clean; its was_dirty is true exactly when close_when_clean is
\* true and a filesystem event triggered the open or the store reports the
\* path dirty at completion; with close_when_clean false it is false.
C24_WasDirtyOnlyWithCloseWhenClean ==
    [][\A o \in BagToSet(opens) : \A i \in 1..scope.max_items :
          (OpenSucceeds(o, i) /\ o.group_id \in DOMAIN watch_groups) =>
              /\ Inserted(o).item_id = i
              /\ Inserted(o).close_when_clean = o.close_when_clean
              /\ Inserted(o).was_dirty =
                    (/\ o.close_when_clean
                     /\ (o.opened_from_fs
                           \/ is_project_path_dirty(World, o.project_path)))]_vars

\* an item opened for a filesystem event outside any repository is tracked
\* with close_when_clean and was_dirty both false
C24_Witness ==
    \E g \in DOMAIN watch_groups : \E e \in Range(watch_groups[g].watched_items) :
        /\ e.opened_from_fs
        /\ ~ e.close_when_clean
        /\ ~ e.was_dirty

\* the tracked paths of g that step (b) of a refresh enables: not yet
\* close_when_clean, and now inside a repository
EnabledNow(g) ==
    {p \in DOMAIN watch_groups[g].watched_items :
        /\ ~ watch_groups[g].watched_items[p].close_when_clean
        /\ should_close_when_clean(World, p)}

\* C25, as stated: step (b) changes close_when_clean only, and only for
\* tracked items whose path is now in a repository; an item it enables that
\* has was_dirty false and is not in the dirty set is not closed by that
\* refresh and keeps was_dirty false.
C25_EnablingLeavesWasDirty ==
    \A g \in DOMAIN watch_groups :
        ~ watch_groups[g].paused =>
            LET st == watch_groups[g]
                after == refresh_watch_git_status_for_group(World, g)
            IN \A p \in EnabledNow(g) :
                  (/\ ~ st.watched_items[p].was_dirty
                   /\ p \notin collect_watch_dirty_paths_for_group(World, g)) =>
                      /\ st.watched_items[p].item_id \notin after.closes \ close_requests
                      /\ p \in DOMAIN after.wg[g].watched_items
                      /\ ~ after.wg[g].watched_items[p].was_dirty

\* C25, amended: step (b) turns close_when_clean on for exactly the tracked
\* items that lack it and whose path is now in a repository, and sets their
\* was_dirty with it, leaving item_id as it is; such an item whose path is
\* not in the dirty set is closed by the same refresh, and one whose path is
\* dirty stays tracked with both flags set. Every other tracked item keeps
\* its close_when_clean.
C25_EnablingSetsWasDirty ==
    \A g \in DOMAIN watch_groups :
        ~ watch_groups[g].paused =>
            LET st == watch_groups[g]
                after == refresh_watch_git_status_for_group(World, g)
                dirty == collect_watch_dirty_paths_for_group(World, g)
            IN \A p \in DOMAIN st.watched_items :
                  LET e == st.watched_items[p]
                  IN IF p \in EnabledNow(g)
                     THEN IF p \in dirty
                          THEN /\ p \in DOMAIN after.wg[g].watched_items
                               /\ after.wg[g].watched_items[p].item_id = e.item_id
                               /\ after.wg[g].watched_items[p].close_when_clean
                               /\ after.wg[g].watched_items[p].was_dirty
                          ELSE e.item_id \in DOMAIN items =>
                                  /\ e.item_id \in after.closes
                                  /\ p \notin DOMAIN after.wg[g].watched_items
                                  /\ e.item_id \notin DOMAIN after.wg[g].watched_item_ids
                     ELSE p \in DOMAIN after.wg[g].watched_items =>
                             /\ after.wg[g].watched_items[p].item_id = e.item_id
                             /\ after.wg[g].watched_items[p].close_when_clean
                                  = e.close_when_clean

\* an item that was opened outside any repository is tracked without
\* close_when_clean and was_dirty in an unpaused group, its path is now in a
\* repository and clean, and a refresh timer is in flight
C25_Witness ==
    \E g \in DOMAIN watch_groups : \E p \in EnabledNow(g) :
        /\ ~ watch_groups[g].paused
        /\ ~ watch_groups[g].watched_items[p].was_dirty
        /\ p \notin collect_watch_dirty_paths_for_group(World, g)
        /\ watch_groups[g].watched_items[p].item_id \in DOMAIN items
        /\ \E t \in BagToSet(timers) : t.group_id = g

\* Removed events for the paths of the model, whatever is_file would answer
RemovedEvents == {Event(e.path, "Removed", f) : e \in Events, f \in BOOLEAN}

\* the batches of one or two Removed events
RemovedBatches ==
    {<< e >> : e \in RemovedEvents}
        \cup {<< e1, e2 >> : e1 \in RemovedEvents, e2 \in RemovedEvents}

\* C26: a batch of Removed events only has no candidate, and what the
\* watch_task does with it changes nothing: no open request, no close
\* request, no timer, every group's state as before, also when a removed
\* path is the path of a tracked, open item.
C26_RemovedEventsChangeNothing ==
    \A lw \in live_watchers : \A b \in RemovedBatches :
        /\ candidate_paths(lw.root_path, b) = << >>
        /\ lw.group_id \in DOMAIN watch_groups =>
              Dispatched(lw.group_id, b) = World

\* the live task of an unpaused group receives events while the document of
\* a path of the model is open and tracked and nothing is in flight
C26_Witness ==
    \E lw \in live_watchers : \E e \in RemovedEvents :
        LET st == watch_groups[lw.group_id]
            pp == ProjectPath(Below(st, e))
        IN /\ ~ st.paused
           /\ pp \in DOMAIN st.watched_items
           /\ st.watched_items[pp].item_id \in DOMAIN items
           /\ ~ st.refresh_pending
           /\ timers = EmptyBag
           /\ opens = EmptyBag
           /\ close_requests = {}

\* the event e with another kind
OfKind(e, kind) == Event(e.path, kind, e.is_file)

\* C27: an event without a kind is handled as a Changed and as a Created
\* event for the same path: in the same state it is a candidate exactly when
\* they are, and the task that receives it leaves the same pending_paths,
\* the same open requests and the same refresh request behind.
C27_NoKindIsHandledAsChanged ==
    \A lw \in live_watchers : \A e \in Events : \A k \in {"Created", "Changed"} :
        /\ IsCandidate(lw.root_path, OfKind(e, "NoKind"))
              = IsCandidate(lw.root_path, OfKind(e, k))
        /\ lw.group_id \in DOMAIN watch_groups =>
              Dispatched(lw.group_id, << OfKind(e, "NoKind") >>)
                 = Dispatched(lw.group_id, << OfKind(e, k) >>)

\* the live task of an unpaused group has forwarded an event: the open it
\* requested for the path is in flight, the path is pending and the refresh
\* it requested is awaited
C27_Witness ==
    \E lw \in live_watchers : \E o \in BagToSet(opens) :
        /\ ~ watch_groups[lw.group_id].paused
        /\ o.group_id = lw.group_id
        /\ o.opened_from_fs
        /\ o.issued_by = lw.request_id
        /\ o.project_path \in watch_groups[lw.group_id].pending_paths
        /\ watch_groups[lw.group_id].refresh_pending
        /\ \E e \in Events :
              /\ e.kind = "NoKind"
              /\ IsCandidate(lw.root_path, e)
              /\ ProjectPath(Below(watch_groups[lw.group_id], e)) = o.project_path

\* a name is a configured ignored name up to the case of its letters
IsIgnoredName(name) == \E n \in OpenFoldersIgnore : SameIgnoringCase(name, n)

\* a name ends in a dot followed by a binary-artifact extension
HasBinaryExtension(name) ==
    \E x \in BinaryExtensions :
        /\ Len(name) > Len(x)
        /\ name[Len(name) - Len(x)] = "."
        /\ SubSeq(name, Len(name) - Len(x) + 1, Len(name)) = x

\* the paths the store reports with changes that are of the worktree of st,
\* under its root_rel_path, and have no dot-prefixed component, no ignored
\* component and no binary-artifact extension
ReportedUnderRoot(st) ==
    {pp \in git_status :
        /\ pp.worktree_id = st.worktree_id
        /\ Len(pp.path) >= Len(st.root_rel_path)
        /\ SubSeq(pp.path, 1, Len(st.root_rel_path)) = st.root_rel_path
        /\ \A i \in DOMAIN pp.path :
              pp.path[i][1] # "." /\ ~ IsIgnoredName(pp.path[i])
        /\ ~ HasBinaryExtension(pp.path[Len(pp.path)])}

\* C28: the dirty set of an installed group is exactly the set of paths the
\* store reports with changes that have the group's worktree id, lie under
\* its root_rel_path and pass the hidden, ignored-name and binary-artifact
\* filters; it is empty for a group without state; and a refresh requests
\* exactly the paths of the current set that are neither open nor pending.
C28_DirtySetIsFilteredStatus ==
    \A g \in scope.groups :
        IF g \notin DOMAIN watch_groups
        THEN collect_watch_dirty_paths_for_group(World, g) = {}
        ELSE /\ collect_watch_dirty_paths_for_group(World, g)
                  = ReportedUnderRoot(watch_groups[g])
             /\ ~ watch_groups[g].paused =>
                   {o.project_path : o \in
                       BagToSet(Requested(refresh_watch_git_status_for_group(World, g)))}
                     = {d \in ReportedUnderRoot(watch_groups[g]) :
                           /\ d \notin watch_groups[g].pending_paths
                           /\ item_for_project_path_in_group(World, d, g) = {}}

\* a group on the directory below the worktree root has requested the file
\* in that directory and nothing else, while the store reports every path
\* of the scope
C28_Witness ==
    \E g \in DOMAIN watch_groups :
        /\ watch_groups[g].root_rel_path = << n_sub >>
        /\ git_status = DirtyGitPaths
        /\ watch_groups[g].pending_paths = {ProjectPath(<< n_sub, n_a_txt >>)}

\* an entry of a batch that is a candidate and survives every filter
Survives(st, e) == e.kind # "Removed" /\ ~ Rejected(st, e)

\* C29: a batch delivered to a running, unpaused group with no refresh
\* pending requests a refresh (sets refresh_pending and starts the timer)
\* exactly when one of its entries is a candidate that survives the hidden,
\* ignored-name, binary-artifact and plain-file filters.
C29_RefreshIffSomeEntrySurvives ==
    \A lw \in live_watchers :
        (/\ lw.group_id \in DOMAIN watch_groups
         /\ ~ watch_groups[lw.group_id].paused
         /\ ~ watch_groups[lw.group_id].refresh_pending) =>
            \A b \in Batches :
                LET after == Dispatched(lw.group_id, b)
                IN /\ after.wg[lw.group_id].refresh_pending
                      = (\E i \in DOMAIN b : Survives(watch_groups[lw.group_id], b[i]))
                   /\ (after.timers # timers)
                      = (\E i \in DOMAIN b : Survives(watch_groups[lw.group_id], b[i]))

\* what a step leaves of a world, the guard and the timers aside
Effects(w) ==
    [wg |-> [g \in DOMAIN w.wg |-> [w.wg[g] EXCEPT !.refresh_pending = FALSE]],
     opens |-> w.opens, closes |-> w.closes]

\* C30: with timers that fire, a group whose refresh_pending is set comes to
\* have it cleared (or is no longer installed); a set guard always has its
\* timer in flight, and a request made while it is set starts no other;
\* the step of the timer clears the guard and has the effects of one
\* refresh, none when the group is paused.
C30_GuardClearedAndRefreshRun ==
    /\ \A g \in TrackingScope.groups :
          (g \in DOMAIN watch_groups /\ watch_groups[g].refresh_pending)
             ~> (g \notin DOMAIN watch_groups \/ ~ watch_groups[g].refresh_pending)
    /\ [](\A g \in DOMAIN watch_groups :
             watch_groups[g].refresh_pending =>
                /\ TimersInFlight(g) >= 1
                /\ schedule_watch_refresh_for_group(World, g) = World)
    /\ [][\A t \in BagToSet(timers) :
             (RefreshTimerFires(t) /\ t.group_id \in DOMAIN watch_groups) =>
                /\ t.group_id \in DOMAIN watch_groups'
                /\ ~ watch_groups'[t.group_id].refresh_pending
                /\ timers' = timers (-) SetToBag({t})
                /\ Effects(World') =
                      Effects(refresh_watch_git_status_for_group(World, t.group_id))
                /\ watch_groups[t.group_id].paused =>
                      /\ Effects(World') = Effects(World)
                      /\ close_requests' = close_requests]_vars

\* the task of a group has forwarded a batch (the open it requested is in
\* flight and its path pending) and the timer that the batch started has
\* fired: the guard is clear and no timer is in flight
C30_Witness ==
    \E g \in DOMAIN watch_groups : \E o \in BagToSet(opens) :
        /\ ~ watch_groups[g].refresh_pending
        /\ timers = EmptyBag
        /\ o.group_id = g
        /\ o.opened_from_fs
        /\ o.issued_by = watch_groups[g].request_id
        /\ o.project_path \in watch_groups[g].pending_paths

\* the open requests a step issues
Issued == {o \in BagToSet(opens') : CopiesIn(o, opens') > CopiesIn(o, opens)}

\* C31: the auto-close path closes no tracked item whose close_when_clean is
\* false when the refresh evaluates it (false before the refresh and not
\* turned on by it), whatever its was_dirty and the dirty set; an open
\* request carries close_when_clean true exactly when its path resolves into
\* a repository when it is issued; and the close_when_clean of a tracked
\* path never goes from true to false while the path stays tracked.
C31_CloseWhenCleanGatesAndStays ==
    [][/\ \A i \in close_requests' \ close_requests : \A e \in EntriesOf(i) :
             e.close_when_clean
               \/ should_close_when_clean(World', items[i].project_path)
       /\ \A o \in Issued :
             o.close_when_clean <=> should_close_when_clean(World', o.project_path)
       /\ \A g \in (DOMAIN watch_groups) \cap (DOMAIN watch_groups') :
             \A pp \in (DOMAIN watch_groups[g].watched_items)
                          \cap (DOMAIN watch_groups'[g].watched_items) :
                 watch_groups[g].watched_items[pp].close_when_clean =>
                     watch_groups'[g].watched_items[pp].close_when_clean]_vars

\* C32: an open request that completes, with a document or with an error,
\* while its group has no state (it was stopped and not installed again)
\* changes nothing in the store: no group gets a WatchedItem, a
\* reverse-mapping entry or a pending entry, and no request is issued.
C32_OpenOfStoppedGroupChangesNothing ==
    [][\A o \in BagToSet(opens) :
          (/\ o.group_id \notin DOMAIN watch_groups
           /\ \/ \E i \in 1..scope.max_items : OpenSucceeds(o, i)
              \/ \E error \in OpenErrors : OpenFails(o, error)) =>
              /\ watch_groups' = watch_groups
              /\ watch_request_ids' = watch_request_ids
              /\ watch_status' = watch_status
              /\ timers' = timers
              /\ close_requests' = close_requests
              /\ opens' = opens (-) SetToBag({o})]_vars

\* an open request is in flight for a group that was stopped (it has neither
\* a state nor a request id) while another group is installed
C32_Witness ==
    \E o \in BagToSet(opens) : \E h \in DOMAIN watch_groups :
        /\ o.group_id \notin DOMAIN watch_groups
        /\ o.group_id \notin DOMAIN watch_request_ids
        /\ h # o.group_id

\* C33: stop_group(g) removes the state of g and with it watched_items,
\* watched_item_ids and pending_paths of g, and the request id of g; it
\* issues no close request, the documents stay open, and the state of every
\* other group is as it was.
C33_StopUntracksWithoutClosing ==
    [][\A g \in scope.groups :
          stop_watching_group(g) =>
              /\ g \notin DOMAIN watch_groups'
              /\ g \notin DOMAIN watch_request_ids'
              /\ \A h \in DOMAIN watch_groups :
                    h # g => h \in DOMAIN watch_groups'
                               /\ watch_groups'[h] = watch_groups[h]
              /\ DOMAIN watch_groups' \subseteq DOMAIN watch_groups
              /\ close_requests' = close_requests
              /\ items' = items
              /\ opens' = opens
              /\ timers' = timers]_vars

\* a document opened by a group is open and no close is requested for it
\* although the group was stopped, while the other group is installed and
\* awaits a path
C33_Witness ==
    \E i \in DOMAIN items : \E h \in DOMAIN watch_groups :
        /\ items[i].group \notin DOMAIN watch_groups
        /\ items[i].group \notin DOMAIN watch_request_ids
        /\ i \notin close_requests
        /\ h # items[i].group
        /\ watch_groups[h].pending_paths # {}

\* the close requests in flight, with the save intent they were issued with
CloseRequestsInFlight ==
    {[item_id |-> i, save_intent |-> close_item_save_intent] : i \in close_requests}

\* C34: every close request of the auto-close path carries the intent that
\* discards silently, never one under which the user can be asked.
C34_ClosesDiscardSilently ==
    \A r \in CloseRequestsInFlight :
        /\ r.save_intent = DiscardSilently
        /\ r.save_intent \notin PromptingIntents

\* a request (an open or a timer) of a state that was replaced: its group is
\* installed again, by a later start than the one whose state issued it
Stale(q) ==
    /\ q.group_id \in DOMAIN watch_groups
    /\ watch_groups[q.group_id].request_id # q.issued_by

\* the open requests in flight after a step that the state of g, as it is
\* after the step, issued
OwnOpensAfter(g) ==
    {o \in BagToSet(opens') :
        o.group_id = g /\ o.issued_by = watch_groups'[g].request_id}

\* C35: the completion of an open request and the firing of a timer that a
\* previous state of a group started leave the state installed since as it
\* is: the completion removes nothing from its pending_paths and inserts no
\* watched item, the timer does not clear its refresh_pending; so that after
\* such a completion an event for a path whose request of the installed
\* state is in flight issues no second request for it.
C35_StaleRequestsLeaveNewState ==
    [][/\ \A o \in BagToSet(opens) :
             (/\ Stale(o)
              /\ \/ \E i \in 1..scope.max_items : OpenSucceeds(o, i)
                 \/ \E error \in OpenErrors : OpenFails(o, error)) =>
                 /\ watch_groups'[o.group_id].pending_paths
                       = watch_groups[o.group_id].pending_paths
                 /\ watch_groups'[o.group_id].watched_items
                       = watch_groups[o.group_id].watched_items
                 /\ watch_groups'[o.group_id].watched_item_ids
                       = watch_groups[o.group_id].watched_item_ids
                 /\ \A own \in OwnOpensAfter(o.group_id) :
                       LET after == handle_watch_fs_paths(World', o.group_id,
                                        << AbsPath(watch_groups'[o.group_id],
                                                   own.project_path) >>)
                       IN \A r \in BagToSet(after.opens (-) opens') :
                             r.project_path # own.project_path
       /\ \A t \in BagToSet(timers) :
             (Stale(t) /\ RefreshTimerFires(t)) =>
                 watch_groups'[t.group_id].refresh_pending
                   = watch_groups[t.group_id].refresh_pending]_vars

\* the request ids in use: those of the starts in flight, those stored for
\* the groups and those of the installed states
RequestIdsInUse ==
    {s.request_id : s \in starts}
        \cup {watch_request_ids[g] : g \in DOMAIN watch_request_ids}
        \cup {watch_groups[g].request_id : g \in DOMAIN watch_groups}

\* C36: every group with an installed state has a stored request id, and it
\* is the id of the start whose continuation installed the state; the ids
\* handed out are pairwise distinct (none exceeds the counter, no two starts
\* in flight and no two groups share one), so at most one start in flight
\* of a group passes the check of the continuation.
C36_InstalledStateHoldsCurrentId ==
    /\ \A g \in DOMAIN watch_groups :
          /\ g \in DOMAIN watch_request_ids
          /\ watch_request_ids[g] = watch_groups[g].request_id
    /\ \A id \in RequestIdsInUse : 1 <= id /\ id <= next_watch_request_id
    /\ \A s1 \in starts : \A s2 \in starts :
          s1.request_id = s2.request_id => s1 = s2
    /\ \A g \in DOMAIN watch_request_ids : \A h \in DOMAIN watch_request_ids :
          watch_request_ids[g] = watch_request_ids[h] => g = h
    /\ \A s \in starts : \A g \in DOMAIN watch_groups :
          s.request_id # watch_groups[g].request_id
    /\ \A g \in scope.groups :
          Cardinality({s \in starts :
              s.group_id = g /\ IsCurrentRequest(watch_request_ids, s)}) <= 1

\* two starts of one group are in flight, one of them superseded, while the
\* stored request id of the group is the id of the other
C36_Witness ==
    \E s1 \in starts : \E s2 \in starts :
        /\ s1.group_id = s2.group_id
        /\ ~ IsCurrentRequest(watch_request_ids, s1)
        /\ IsCurrentRequest(watch_request_ids, s2)

\* the file a project path names: its path is relative to the worktree root
WorktreeAbsPath(pp) == WorktreeRoot \o pp.path

\* C37: for a file under the root of a group that the store reports with
\* changes, the key that handle_watch_fs_paths derives from its absolute
\* path is the key dirty-path discovery produces, also when the root is a
\* directory below the worktree root; hence an event for a file that the
\* refresh has made pending issues no second open request.
C37_EventKeyIsDirtyKey ==
    \A g \in DOMAIN watch_groups :
        LET st == watch_groups[g]
        IN \A pp \in collect_watch_dirty_paths_for_group(World, g) :
              /\ StartsWith(WorktreeAbsPath(pp), st.root_path)
              /\ project_path_from_abs(WorktreeAbsPath(pp), st.root_path,
                                       st.worktree_id) = {pp}
              /\ pp \in st.pending_paths =>
                    Requested(handle_watch_fs_paths(
                                  World, g, << WorktreeAbsPath(pp) >>))
                      = EmptyBag

\* C38: toggle_watch_pause with a group installed leaves every installed
\* group with one paused value, true when some group was unpaused and false
\* when all were paused; when it pauses it changes only the flags and issues
\* nothing; when it unpauses it refreshes every group: each dirty path that
\* is neither open nor pending is requested and made pending, each item
\* ready to close is closed and untracked; with no group installed it
\* changes nothing.
C38_ToggleSetsOnePausedValue ==
    \A order \in SeqsOf(DOMAIN watch_groups) :
        LET after == toggle_paused_groups(World, order)
            pause_all == \E g \in DOMAIN watch_groups : ~ watch_groups[g].paused
        IN IF DOMAIN watch_groups = {}
           THEN after = World
           ELSE /\ DOMAIN after.wg = DOMAIN watch_groups
                /\ \A g \in DOMAIN watch_groups : after.wg[g].paused = pause_all
                /\ IF pause_all
                   THEN /\ after.wg = [g \in DOMAIN watch_groups |->
                                         [watch_groups[g] EXCEPT !.paused = TRUE]]
                        /\ after.opens = opens
                        /\ after.closes = close_requests
                        /\ after.timers = timers
                   ELSE \A g \in DOMAIN watch_groups :
                          /\ \A d \in DirtyUnopened(g) :
                                /\ d \in after.wg[g].pending_paths
                                /\ \E o \in BagToSet(Requested(after)) :
                                      o.group_id = g /\ o.project_path = d
                          /\ \A p \in ReadyToClose(g) :
                                /\ watch_groups[g].watched_items[p].item_id
                                      \in after.closes
                                /\ p \notin DOMAIN after.wg[g].watched_items

\* two groups are installed, one paused and one not, and the store reports
\* a path dirty that the paused one has neither open nor pending
C38_Witness ==
    \E g \in DOMAIN watch_groups : \E h \in DOMAIN watch_groups :
        /\ watch_groups[g].paused
        /\ ~ watch_groups[h].paused
        /\ DirtyUnopened(g) # {}

\* the configurations persisted in the panes of a layout
RECURSIVE PersistedConfigs(_)
PersistedConfigs(pane_group) ==
    IF pane_group.kind = "Group"
    THEN UNION {PersistedConfigs(pane_group.children[i]) :
                   i \in DOMAIN pane_group.children}
    ELSE UNION {Range(l) : l \in pane_group.tab_ui_state}

\* the configurations of the live panes
LiveConfigs(panes) == UNION {Range(panes[i]) : i \in DOMAIN panes}

\* C39: restoring the groups of a persisted layout issues exactly one start
\* for each distinct group id among the persisted and the live
\* configurations, with the root path and pause state of a configuration of
\* that group: of a live pane when a live pane has one for the id, of the
\* persisted layout otherwise; each start is the current one of its group.
C39_RestoreStartsEachGroupOnce ==
    \A pane_group \in SerializedPaneGroups : \A panes \in LivePanes :
        LET serialized == collect_group_watch_configs(pane_group)
            persisted == PersistedConfigs(pane_group)
            live == LiveConfigs(panes)
            ids == {c.group_id : c \in persisted \cup live}
        IN /\ Range(serialized) = persisted
           /\ DOMAIN group_configs(serialized, panes) = ids
           /\ \A order \in SeqsOf(ids) :
                 LET l == reattach_starts(Lifecycle, serialized, panes, order)
                     new == l.starts \ starts
                 IN /\ starts \subseteq l.starts
                    /\ Cardinality(new) = Cardinality(ids)
                    /\ l.next_id = next_watch_request_id + Cardinality(ids)
                    /\ \A g \in ids :
                          /\ g \notin DOMAIN l.wg
                          /\ \E s \in new :
                                /\ s.group_id = g
                                /\ s.request_id > next_watch_request_id
                                /\ l.request_ids[g] = s.request_id
                                /\ GroupWatchConfig(g, s.root_path, s.paused) \in
                                      IF \E c \in live : c.group_id = g
                                      THEN live ELSE persisted

\* the starts of two restored groups are in flight, each the current one of
\* its group, on different roots and with different pause states
C39_Witness ==
    \E s1 \in starts : \E s2 \in starts :
        /\ s1.group_id # s2.group_id
        /\ IsCurrentRequest(watch_request_ids, s1)
        /\ IsCurrentRequest(watch_request_ids, s2)
        /\ s1.root_path # s2.root_path
        /\ s1.paused # s2.paused

====
